---- MODULE Spec2Model ----
(***************************************************************************)
(* Student-risk prediction backend (parthasarathys03/clg-project).         *)
(*                                                                         *)
(* The specifications, over one set of variables:                          *)
(*   SpecPredict    one call of ml_model/predict.py:predict on a drawn     *)
(*                  feature vector and a drawn raw probability             *)
(*                  distribution (the override layer _apply_hard_rules and *)
(*                  the confidence selection);                             *)
(*   Spec           the model artifact model.pkl and the module-level slot *)
(*                  _cached_payload under concurrent request threads       *)
(*                  (POST /api/train, _run_prediction, predict, train.py); *)
(*   SpecSeq        the same handlers, one call at a time;                 *)
(*   SpecCluster    ml_analysis/analysis_service.py: get_student_clusters  *)
(*                  and invalidate_cache on concurrent threads;            *)
(*   SpecClusterSeq the same calls, one at a time;                         *)
(*   SpecClusterOps the same calls, one at a time, with an operator who    *)
(*                  removes or replaces the dataset file between them;     *)
(*   SpecSweep      one call of clustering.py:_compute_validation_metrics; *)
(*   SpecInterpret  one call of clustering.py:_interpret_clusters;         *)
(*   SpecRun        one call of clustering.py:run_clustering on a drawn    *)
(*                  dataset;                                               *)
(*   SpecRetry      one call of database.py:_retry_on_locked on a drawn    *)
(*                  behaviour of the retried operation;                    *)
(*   SpecBatch      main.py: a CSV uploaded twice to POST                  *)
(*                  /api/batch-upload, the worker _process_batch_worker    *)
(*                  with _run_prediction, and the progress endpoint;       *)
(*   SpecReset      demo_seed.py:reset_demo_data on drawn contents of the  *)
(*                  tables.                                                *)
(***************************************************************************)
EXTENDS Integers, Sequences, FiniteSets, TLC

VARIABLES
    X,          \* predict(): the feature vector of the call
    proba,      \* predict(): clf.predict_proba(X)[0], in units of 1e-5
    importances,    \* predict(): clf.feature_importances_, units of 1e-4
    result,     \* predict(): the returned dict, NoResult before the call
    disk,       \* model.pkl: NoFile, or the chunks it holds (each tagged with
                \* the training run that wrote it)
    cached,     \* predict.py:_cached_payload (None, or the decoded content)
    pc,         \* per thread: position in its handler
    op,         \* per thread: the handler it runs
    woff,       \* per thread: file offset of its open(MODEL_PATH, "wb") handle
    ver,        \* per thread: the payload its train_model run dumps
    buf,        \* per thread: the file content its pickle.load read
    loadFor,    \* per thread: the caller of its _load_payload
    ret,        \* per thread: what its handler returned or raised
    nextVer,    \* number of training runs started so far
    hist,       \* history of the calls, read by the properties only
    dataset,    \* data/student_data.csv: its columns and its labels
    _cache,     \* analysis_service.py:_cache (NoCluster is None)
    cpc,        \* per thread: position in get_student_clusters
    force_recompute,    \* per thread: the argument of its call
    computed,   \* per thread: the result its run_clustering is building
    cret,       \* per thread: what its call returned or raised
    runs,       \* run_clustering computations finished so far
    calls,      \* get_student_clusters calls started so far
    chist,      \* history of the cluster calls, read by the properties only
    sil_raw,    \* _compute_validation_metrics: silhouette_score(...) for each
                \* k of K_RANGE, in units of 1e-5
    validation, \* _compute_validation_metrics: the returned dict
    n_clusters, \* _interpret_clusters: its argument
    means,      \* _interpret_clusters: df.groupby("cluster")[FEATURE_COLS]
                \* .mean(), one row of four means per cluster id present
    interpretation, \* _interpret_clusters: the returned dict
    csv_rows,   \* run_clustering: the rows pd.read_csv returns, as the number
                \* of rows of each kind (rows of a kind have equal features)
    analysis,   \* run_clustering: the returned dict, or the exception
    fn_results, \* _retry_on_locked: what the successive calls of fn() do
    max_retries,    \* _retry_on_locked: its argument
    attempt,    \* _retry_on_locked: the loop variable
    fn_calls,   \* _retry_on_locked: calls of fn() made so far
    retried,    \* _retry_on_locked: how the call ended
    csv,        \* the CSV file the client uploads to POST /api/batch-upload
    db,         \* the SQLite tables predictions, batch_jobs, advisory_cache
    _batch_progress,    \* main.py:_batch_progress, one dict per batch id
    worker,     \* _process_batch_worker: its position and its local variables
    last_run,   \* the last call of _run_prediction: what its steps did and
                \* what it returned
    bhist,      \* history of the batches, read by the properties only
    reset       \* reset_demo_data: its position, its local variables and
                \* how it ended

vars == << X, proba, importances, result, disk, cached, pc, op, woff, ver,
           buf, loadFor, ret, nextVer, hist, dataset, _cache, cpc, force_recompute, computed,
           cret, runs, calls, chist, sil_raw, validation, n_clusters, means,
           interpretation, csv_rows, analysis, fn_results, max_retries,
           attempt, fn_calls, retried, csv, db, _batch_progress, worker,
           last_run, bhist, reset >>

predictVars == << X, proba, importances, result >>
cacheVars == << disk, cached, pc, op, woff, ver, buf, loadFor, ret, nextVer,
               hist >>
clusterVars == << _cache, cpc, force_recompute, computed, cret, runs, calls,
                 chist >>
sweepVars == << sil_raw, validation >>
interpretVars == << n_clusters, means, interpretation >>
runVars == << csv_rows, analysis >>
retryVars == << fn_results, max_retries, attempt, fn_calls, retried >>
batchVars == << csv, _batch_progress, worker, last_run, bhist >>
serviceVars == << retryVars, batchVars, db, reset >>
pureVars == << sweepVars, interpretVars, runVars, serviceVars >>
analysisVars == << clusterVars, pureVars >>

----------------------------------------------------------------------------
(* ml_model/predict.py: the override layer and predict().                  *)

\* le.classes_ of the trained LabelEncoder: the sorted label strings.
classes == << "At Risk", "Average", "Good" >>

NoResult == [ risk_level |-> "none", confidence |-> 0,
              probabilities |-> << >>, key_factors |-> << >> ]

\* Sample inputs around every threshold the rules test.  study_hours_per_day
\* is a float compared with 1.5 and 3: it is kept in tenths of an hour.
AttendanceValues == {20, 49, 50, 70, 74, 75, 100}
MarksValues      == {20, 34, 35, 59, 60, 90, 100}
AssignmentValues == {20, 34, 35, 59, 60, 90, 100}
HoursTenths      == {10, 14, 15, 29, 30, 50, 80}

\* Raw class-probability distributions (At Risk, Average, Good), units of 1e-5.
ProbaValues ==
    { << 10000, 20000, 70000 >>,     \* raw verdict Good
      << 33333, 33333, 33334 >>,     \* Good by one unit
      <<  2004, 41238, 56758 >>,     \* Good, digits lost by round(_, 4)
      << 20000, 60000, 20000 >>,     \* raw verdict Average
      <<     0, 50000, 50000 >>,     \* tie: argmax takes the first, Average
      << 80000, 14996,  5004 >>,     \* raw verdict At Risk
      << 40000, 40000, 20000 >>,     \* tie: At Risk
      <<     0,     0, 100000 >> }   \* all mass on Good

FeatureVectors ==
    [ attendance_percentage : AttendanceValues,
      internal_marks        : MarksValues,
      assignment_score      : AssignmentValues,
      study_hours_tenths    : HoursTenths ]

\* sum([...]) of the four booleans of rule 5.
Below(x) ==
      (IF x.attendance_percentage < 75 THEN 1 ELSE 0)
    + (IF x.internal_marks < 60 THEN 1 ELSE 0)
    + (IF x.assignment_score < 60 THEN 1 ELSE 0)
    + (IF x.study_hours_tenths < 30 THEN 1 ELSE 0)

\* Mutant: rule 6 is tested before the force-to-At-Risk rules.
apply_rule6_first(risk_level, x) ==
    IF x.attendance_percentage < 75 /\ risk_level = "Good" THEN "Average"
    ELSE IF x.attendance_percentage < 50 THEN "At Risk"
    ELSE IF x.internal_marks < 35 THEN "At Risk"
    ELSE IF x.assignment_score < 35 THEN "At Risk"
    ELSE IF x.study_hours_tenths < 15 /\ x.attendance_percentage < 75
         THEN "At Risk"
    ELSE IF Below(x) >= 3 THEN "At Risk"
    ELSE risk_level

\* Mutant: rule 6 tests attendance against 70 instead of 75.
apply_rule6_att70(risk_level, x) ==
    IF x.attendance_percentage < 50 THEN "At Risk"
    ELSE IF x.internal_marks < 35 THEN "At Risk"
    ELSE IF x.assignment_score < 35 THEN "At Risk"
    ELSE IF x.study_hours_tenths < 15 /\ x.attendance_percentage < 75
         THEN "At Risk"
    ELSE IF Below(x) >= 3 THEN "At Risk"
    ELSE IF x.attendance_percentage < 70 /\ risk_level = "Good" THEN "Average"
    ELSE risk_level

\* Mutant: rule 6 downgrades every verdict by one level.
apply_downgrade_any(risk_level, x) ==
    IF x.attendance_percentage < 50 THEN "At Risk"
    ELSE IF x.internal_marks < 35 THEN "At Risk"
    ELSE IF x.assignment_score < 35 THEN "At Risk"
    ELSE IF x.study_hours_tenths < 15 /\ x.attendance_percentage < 75
         THEN "At Risk"
    ELSE IF Below(x) >= 3 THEN "At Risk"
    ELSE IF x.attendance_percentage < 75 /\ risk_level = "Good" THEN "Average"
    ELSE IF x.attendance_percentage < 75 /\ risk_level = "Average"
         THEN "At Risk"
    ELSE risk_level

\* Mutant: rule 5 spares a raw verdict of Good.
apply_rule5_spares_good(risk_level, x) ==
    IF x.attendance_percentage < 50 THEN "At Risk"
    ELSE IF x.internal_marks < 35 THEN "At Risk"
    ELSE IF x.assignment_score < 35 THEN "At Risk"
    ELSE IF x.study_hours_tenths < 15 /\ x.attendance_percentage < 75
         THEN "At Risk"
    ELSE IF Below(x) >= 3 /\ risk_level # "Good" THEN "At Risk"
    ELSE IF x.attendance_percentage < 75 /\ risk_level = "Good" THEN "Average"
    ELSE risk_level

\* Mutant: a student with no metric below its threshold is raised from
\* Average to Good.
apply_raises_clean_record(risk_level, x) ==
    IF x.attendance_percentage < 50 THEN "At Risk"
    ELSE IF x.internal_marks < 35 THEN "At Risk"
    ELSE IF x.assignment_score < 35 THEN "At Risk"
    ELSE IF x.study_hours_tenths < 15 /\ x.attendance_percentage < 75
         THEN "At Risk"
    ELSE IF Below(x) >= 3 THEN "At Risk"
    ELSE IF x.attendance_percentage < 75 /\ risk_level = "Good" THEN "Average"
    ELSE IF Below(x) = 0 /\ risk_level = "Average" THEN "Good"
    ELSE risk_level

\* _apply_hard_rules(risk_level, attendance, internal_marks, assignment_score,
\* study_hours): the guard clauses in source order.
_apply_hard_rules(risk_level, x) ==
    IF x.attendance_percentage < 50 THEN "At Risk"
    ELSE IF x.internal_marks < 35 THEN "At Risk"
    ELSE IF x.assignment_score < 35 THEN "At Risk"
    ELSE IF x.study_hours_tenths < 15 /\ x.attendance_percentage < 75
         THEN "At Risk"
    ELSE IF Below(x) >= 3 THEN "At Risk"
    ELSE IF x.attendance_percentage < 75 /\ risk_level = "Good" THEN "Average"
    ELSE risk_level

\* np.argmax: the first index holding the maximum.
ArgMax(p) ==
    CHOOSE i \in 1..Len(p) :
        /\ \A j \in 1..Len(p) : p[j] <= p[i]
        /\ \A j \in 1..(i - 1) : p[j] < p[i]

\* list.index: the first position of c in the list.
IndexOf(c, s) == CHOOSE i \in 1..Len(s) : s[i] = c /\ \A j \in 1..(i - 1) : s[j] # c

InList(c, s) == \E i \in 1..Len(s) : s[i] = c

\* round(float(p), 4) of a probability given in units of 1e-5; the result is
\* in units of 1e-4.  Round-half-even.
Round4(p) ==
    LET q == p \div 10
        r == p % 10
    IN  IF r < 5 THEN q
        ELSE IF r > 5 THEN q + 1
        ELSE IF q % 2 = 0 THEN q ELSE q + 1

\* Mutant: the confidence is always the maximum probability.
Confidence_max(risk_level, ml_risk_level, pred_idx, p) == p[pred_idx]

\* The confidence selection of predict() (lines 144-150), before rounding.
Confidence(risk_level, ml_risk_level, pred_idx, p) ==
    IF risk_level # ml_risk_level /\ InList(risk_level, classes)
    THEN p[IndexOf(risk_level, classes)]
    ELSE p[pred_idx]

\* payload["feature_cols"]: the feature names in the order of the columns of X.
feature_cols == << "attendance_percentage", "internal_marks",
                  "assignment_score", "study_hours_per_day" >>

\* X[0]: the four values in column order (study hours in tenths of an hour).
values(x) == << x.attendance_percentage, x.internal_marks,
               x.assignment_score, x.study_hours_tenths >>

\* The thresholds dict of predict(), by column index (3 hours are 30 tenths).
thresholds == << 75, 60, 60, 30 >>

\* clf.feature_importances_ of the loaded forest, units of 1e-4 (they sum to
\* 1): distinct weights in both directions, and weights with ties.
ImportanceValues ==
    { << 4000, 3000, 2000, 1000 >>,
      << 1000, 2000, 3000, 4000 >>,
      << 2500, 4000, 1000, 2500 >>,
      << 3000, 3000, 2000, 2000 >> }

\* The orders in which the four column indices can be listed.
IndexOrders == Permutations(1..4)

\* np.argsort(importances)[::-1]: the orders of the column indices that list
\* the importances from the largest to the smallest.  The order numpy gives
\* to equal importances is not specified: every such order is possible.
argsort_reversed(imp) ==
    { s \in IndexOrders : \A i \in 1..3 : imp[s[i]] >= imp[s[i + 1]] }

\* Mutant: a value equal to its threshold is reported as below it.
key_factor_at_most(idx, x) ==
    [ feat  |-> feature_cols[idx],
      value |-> values(x)[idx],
      note  |-> IF values(x)[idx] <= thresholds[idx]
                THEN << "below", thresholds[idx] >>
                ELSE << "within range" >> ]

\* One pass of the loop over sorted_indices: the text appended for column idx,
\* kept as the parts the f-string is built from.
key_factor(idx, x) ==
    [ feat  |-> feature_cols[idx],
      value |-> values(x)[idx],
      note  |-> IF values(x)[idx] < thresholds[idx]
                THEN << "below", thresholds[idx] >>
                ELSE << "within range" >> ]

\* predict(): raw verdict, override, confidence, key factors, returned dict.
predict(x, p, sorted_indices) ==
    LET pred_idx      == ArgMax(p)
        ml_risk_level == classes[pred_idx]
        risk_level    == _apply_hard_rules(ml_risk_level, x)
        confidence    == Confidence(risk_level, ml_risk_level, pred_idx, p)
    IN  [ risk_level    |-> risk_level,
          confidence    |-> Round4(confidence),
          probabilities |-> [i \in 1..Len(p) |-> Round4(p[i])],
          key_factors   |-> [i \in 1..Len(sorted_indices) |->
                                key_factor(sorted_indices[i], x)] ]

\* One call of predict on the drawn input.
PredictCall ==
    /\ result = NoResult
    /\ \E sorted_indices \in argsort_reversed(importances) :
           result' = predict(X, proba, sorted_indices)
    /\ UNCHANGED << X, proba, importances >>
    /\ UNCHANGED << cacheVars, dataset, analysisVars >>

----------------------------------------------------------------------------
(* The model artifact on disk and the slot _cached_payload.                *)

NThreads  == 2      \* request threads (FastAPI's pool, the batch worker)
MaxTrains == 2      \* training runs started in one behaviour
NChunks   == 2      \* write calls pickle.dump needs for one artifact

Threads == 1..NThreads

\* _cached_payload = None.  A payload is the content pickle.load decoded.
None == << >>

NoFile == [exists |-> FALSE, data |-> << >>]

\* The artifact a finished run v leaves on disk: NChunks chunks of v.
Artifact(v) == [i \in 1..NChunks |-> v]

\* A complete artifact of one training run.
IsArtifact(data) ==
    /\ Len(data) = NChunks
    /\ \A i \in 1..Len(data) : data[i] = data[1] /\ data[i] >= 0

NoRead == [read |-> FALSE, data |-> << >>]
NoRet  == [kind |-> "none", payload |-> None]

\* What pickle.load can do with the bytes it read: a truncated stream raises
\* (EOFError / UnpicklingError); a complete artifact decodes; a full-length
\* stream mixing two dumps may raise or decode to a damaged object.
Unpickle(data) ==
    IF Len(data) < NChunks THEN {"raise"}
    ELSE IF IsArtifact(data) THEN {"ok"}
    ELSE {"raise", "ok"}

\* f.write of one chunk at the handle's own offset (a hole is -1).
WriteAt(data, off, v) ==
    [ i \in 1..(IF Len(data) > off THEN Len(data) ELSE off + 1) |->
        IF i = off + 1 THEN v
        ELSE IF i <= Len(data) THEN data[i]
        ELSE -1 ]

\* The versions a finished service-layer retrain has superseded: those whose
\* dump had finished before the retrained version's run began.
Superseded(h) == UNION { h.older[v] : v \in h.retrained }

\* predictor.predict is entered by thread t.
EnterPredict(t) ==
    /\ pc' = [pc EXCEPT ![t] = "ld_check"]
    /\ loadFor' = [loadFor EXCEPT ![t] = "predict"]

HistEnterPredict(h, t) ==
    [h EXCEPT !.stale[t] = Superseded(h), !.fileAtCall[t] = disk.exists]

\* An exception leaves _load_payload in thread t: predict re-raises it,
\* _run_prediction and POST /api/train turn it into an HTTP error.
Raised(t, exc) ==
    IF op[t] = "train" THEN "HTTP500"
    ELSE IF op[t] = "run_prediction" THEN
        IF loadFor[t] # "predict" THEN "HTTP503"
        ELSE IF exc = "FileNotFoundError" THEN "HTTP503" ELSE "HTTP500"
    ELSE exc

Raise(t, exc) ==
    /\ ret' = [ret EXCEPT ![t] = [kind |-> Raised(t, exc), payload |-> None]]
    /\ pc' = [pc EXCEPT ![t] = "done"]
    /\ UNCHANGED loadFor

\* _load_payload returns payload p to its caller in thread t.  h is the
\* history as the step itself has already updated it.
Loaded(t, p, h) ==
    IF loadFor[t] = "predict"
    THEN /\ ret' = [ret EXCEPT ![t] = [kind |-> "prediction", payload |-> p]]
         /\ pc' = [pc EXCEPT ![t] = "done"]
         /\ hist' = h
         /\ UNCHANGED loadFor
    ELSE IF op[t] = "train"
    THEN /\ ret' = [ret EXCEPT ![t] = [kind |-> "HTTP200", payload |-> None]]
         /\ pc' = [pc EXCEPT ![t] = "done"]
         /\ hist' = [h EXCEPT !.retrained = @ \cup {ver[t]}]
         /\ UNCHANGED loadFor
    ELSE /\ EnterPredict(t)
         /\ hist' = HistEnterPredict([h EXCEPT !.retrained = @ \cup {ver[t]}], t)
         /\ UNCHANGED ret

\* The dataset file data/student_data.csv.
FEATURE_COLS == { "attendance_percentage", "internal_marks",
                  "assignment_score", "study_hours_per_day" }
TARGET_COL == "performance_label"
IDENTITY_COLS == { "student_id", "student_name" }

\* No dataset file.
NoDataset == [exists |-> FALSE, columns |-> {}, odd_labels |-> "none"]

\* The file generate_dataset(save=True) writes: every column, and labels
\* drawn from Good / Average / At Risk only.
generate_dataset ==
    [ exists     |-> TRUE,
      columns    |-> IDENTITY_COLS \cup FEATURE_COLS \cup {TARGET_COL},
      odd_labels |-> "none" ]

\* The dataset files a process can find at start: none, the generated one,
\* one that lacks a column, one whose label column holds a value outside the
\* three categories in a single row ("single") or in enough rows to fall on
\* both sides of the train/test split ("many").
DatasetFiles ==
    { NoDataset, generate_dataset }
    \cup { [generate_dataset EXCEPT !.columns = @ \ {c}] :
             c \in { "attendance_percentage", "study_hours_per_day",
                     TARGET_COL } }
    \cup { [generate_dataset EXCEPT !.odd_labels = n] : n \in {"single", "many"} }

\* load_or_generate_dataset: the file as it is once the call returns (the
\* dataframe train_model works on has the same columns and labels).
load_or_generate_dataset(ds) == IF ds.exists THEN ds ELSE generate_dataset

MissingColumns_features_only(df) == FEATURE_COLS \ df.columns

\* train_model's column check: missing = [c for c in FEATURE_COLS +
\* [TARGET_COL] if c not in df.columns].
MissingColumns(df) == (FEATURE_COLS \cup {TARGET_COL}) \ df.columns

\* What train_model does with dataframe df before it writes anything: the
\* column check raises ValueError; the label values are not looked at, they
\* go to LabelEncoder as they are; train_test_split(stratify=y_enc) raises
\* ValueError for a class of one member; anything else is fitted.
FitOutcome(df) ==
    IF MissingColumns(df) # {} THEN "ValueError"
    ELSE IF df.odd_labels = "single" THEN "ValueError"
    ELSE "ok"

\* random_state=42, given to train_test_split and to RandomForestClassifier.
random_state == 42

\* random_state=None, the default of both routines.
NoSeed == -1

\* The generator states a routine can start from when it is given no seed.
EntropyDraws == { 0, 1 }

\* The pseudo-random stream of a scikit-learn routine: fixed by an integer
\* random_state, fresh from the system's entropy for random_state=None.  The
\* trees of the forest draw their seeds from this stream before they are
\* built, so n_jobs=-1 does not change what is fitted.
check_random_state(seed) == IF seed = NoSeed THEN EntropyDraws ELSE {seed}

NoFit == [ data |-> NoDataset, split |-> 0, forest |-> 0 ]

\* Mutant: the forest is built without a seed.
train_model_fit_unseeded_forest(df) ==
    { [ data |-> df, split |-> s, forest |-> f ] :
        s \in check_random_state(random_state),
        f \in check_random_state(NoSeed) }

\* train_model, lines 73-105: the split and the fitted forest, each named by
\* what determines it (the dataframe and the stream it was drawn with).  The
\* accuracy, the cross-validation scores and clf.feature_importances_ are
\* computed from these without further randomness.
train_model_fit(df) ==
    { [ data |-> df, split |-> s, forest |-> f ] :
        s \in check_random_state(random_state),
        f \in check_random_state(random_state) }

\* A request thread takes up a handler.
\* POST /api/train (main.py:train_model).
StartTrain(t) ==
    /\ pc[t] = "idle"
    /\ nextVer <= MaxTrains
    /\ op' = [op EXCEPT ![t] = "train"]
    /\ pc' = [pc EXCEPT ![t] = "tm_fit"]
    /\ UNCHANGED << disk, cached, woff, ver, buf, loadFor, ret, nextVer, hist >>
    /\ UNCHANGED << predictVars, dataset, analysisVars >>

\* python train.py (train.py's __main__): train_model with no reload_model.
StartScript(t) ==
    /\ pc[t] = "idle"
    /\ nextVer <= MaxTrains
    /\ op' = [op EXCEPT ![t] = "script"]
    /\ pc' = [pc EXCEPT ![t] = "tm_fit"]
    /\ UNCHANGED << disk, cached, woff, ver, buf, loadFor, ret, nextVer, hist >>
    /\ UNCHANGED << predictVars, dataset, analysisVars >>

\* _run_prediction / _run_prediction_from_cache: _auto_train(), then predict.
StartRunPrediction(t) ==
    /\ pc[t] = "idle"
    /\ op' = [op EXCEPT ![t] = "run_prediction"]
    /\ pc' = [pc EXCEPT ![t] = "at_ready"]
    /\ UNCHANGED << disk, cached, woff, ver, buf, loadFor, ret, nextVer, hist >>
    /\ UNCHANGED << predictVars, dataset, analysisVars >>

\* A direct call of predictor.predict (demo_seed._seed_from_cache).
StartPredict(t) ==
    /\ pc[t] = "idle"
    /\ op' = [op EXCEPT ![t] = "predict"]
    /\ EnterPredict(t)
    /\ hist' = HistEnterPredict(hist, t)
    /\ UNCHANGED << disk, cached, woff, ver, buf, ret, nextVer >>
    /\ UNCHANGED << predictVars, dataset, analysisVars >>

\* _auto_train: if not predictor.is_model_ready(): train and reload.
AutoTrainCheck(t) ==
    /\ pc[t] = "at_ready"
    /\ IF disk.exists
       THEN /\ EnterPredict(t)
            /\ hist' = HistEnterPredict(hist, t)
       ELSE /\ nextVer <= MaxTrains
            /\ pc' = [pc EXCEPT ![t] = "tm_fit"]
            /\ UNCHANGED << loadFor, hist >>
    /\ UNCHANGED << disk, cached, op, woff, ver, buf, ret, nextVer >>
    /\ UNCHANGED << predictVars, dataset, analysisVars >>

\* trainer.train_model, lines 59-112: the dataset is read (generated and
\* saved if the file is missing), its columns are checked and the payload of
\* this run is fitted.
TmFit(t) ==
    /\ pc[t] = "tm_fit"
    /\ dataset' = load_or_generate_dataset(dataset)
    /\ IF FitOutcome(dataset') = "ok"
       THEN /\ ver' = [ver EXCEPT ![t] = nextVer]
            /\ nextVer' = nextVer + 1
            /\ \E fitted \in train_model_fit(dataset') :
                   hist' = [hist EXCEPT !.older[nextVer] = hist.closed,
                                        !.fits[nextVer] = fitted]
            /\ pc' = [pc EXCEPT ![t] = "tm_open"]
            /\ UNCHANGED << loadFor, ret >>
       ELSE /\ Raise(t, FitOutcome(dataset'))
            /\ UNCHANGED << ver, nextVer, hist >>
    /\ UNCHANGED << disk, cached, op, woff, buf >>
    /\ UNCHANGED << predictVars, analysisVars >>

\* open(MODEL_PATH, "wb"): the file is created or truncated in place.
TmOpen(t) ==
    /\ pc[t] = "tm_open"
    /\ disk' = [exists |-> TRUE, data |-> << >>]
    /\ woff' = [woff EXCEPT ![t] = 0]
    /\ pc' = [pc EXCEPT ![t] = "tm_write"]
    /\ UNCHANGED << cached, op, ver, buf, loadFor, ret, nextVer, hist >>
    /\ UNCHANGED << predictVars, dataset, analysisVars >>

\* pickle.dump(payload, f): one write; after the last one the file is closed
\* and train_model returns to its caller.
TmWrite(t) ==
    /\ pc[t] = "tm_write"
    /\ disk' = [disk EXCEPT !.data = WriteAt(disk.data, woff[t], ver[t])]
    /\ woff' = [woff EXCEPT ![t] = woff[t] + 1]
    /\ IF woff[t] + 1 < NChunks
       THEN UNCHANGED << pc, ret, hist >>
       ELSE /\ hist' = [hist EXCEPT !.closed = @ \cup {ver[t]}]
            /\ IF op[t] = "script"
               THEN /\ pc' = [pc EXCEPT ![t] = "done"]
                    /\ ret' = [ret EXCEPT ![t] =
                                 [kind |-> "trained", payload |-> None]]
               ELSE /\ pc' = [pc EXCEPT ![t] = "rl_clear"]
                    /\ UNCHANGED ret
    /\ UNCHANGED << cached, op, ver, buf, loadFor, nextVer >>
    /\ UNCHANGED << predictVars, dataset, analysisVars >>

\* reload_model: _cached_payload = None, then _load_payload().
ReloadClear(t) ==
    /\ pc[t] = "rl_clear"
    /\ cached' = None
    /\ loadFor' = [loadFor EXCEPT ![t] = "reload"]
    /\ pc' = [pc EXCEPT ![t] = "ld_check"]
    /\ hist' = [hist EXCEPT !.diskReads = 0]
    /\ UNCHANGED << disk, op, woff, ver, buf, ret, nextVer >>
    /\ UNCHANGED << predictVars, dataset, analysisVars >>

\* Mutant: _load_payload without the test of the slot.
LoadCheck_nocache(t) ==
    /\ pc[t] = "ld_check"
    /\ pc' = [pc EXCEPT ![t] = "ld_exists"]
    /\ UNCHANGED << loadFor, ret, hist >>
    /\ UNCHANGED << disk, cached, op, woff, ver, buf, nextVer >>
    /\ UNCHANGED << predictVars, dataset, analysisVars >>

\* _load_payload: if _cached_payload is not None: return _cached_payload.
LoadCheck(t) ==
    /\ pc[t] = "ld_check"
    /\ IF cached # None
       THEN Loaded(t, cached, hist)
       ELSE /\ pc' = [pc EXCEPT ![t] = "ld_exists"]
            /\ UNCHANGED << loadFor, ret, hist >>
    /\ UNCHANGED << disk, cached, op, woff, ver, buf, nextVer >>
    /\ UNCHANGED << predictVars, dataset, analysisVars >>

\* Mutant: a missing file makes _load_payload return the empty slot.
LoadExists_returns_none(t) ==
    /\ pc[t] = "ld_exists"
    /\ IF disk.exists
       THEN /\ pc' = [pc EXCEPT ![t] = "ld_load"]
            /\ UNCHANGED << loadFor, ret, hist >>
       ELSE Loaded(t, None, hist)
    /\ UNCHANGED << disk, cached, op, woff, ver, buf, nextVer >>
    /\ UNCHANGED << predictVars, dataset, analysisVars >>

\* _load_payload: if not os.path.exists(MODEL_PATH): raise FileNotFoundError.
LoadExists(t) ==
    /\ pc[t] = "ld_exists"
    /\ IF disk.exists
       THEN /\ pc' = [pc EXCEPT ![t] = "ld_load"]
            /\ UNCHANGED << loadFor, ret >>
       ELSE Raise(t, "FileNotFoundError")
    /\ UNCHANGED << disk, cached, op, woff, ver, buf, nextVer, hist >>
    /\ UNCHANGED << predictVars, dataset, analysisVars >>

\* _load_payload: open(MODEL_PATH, "rb") and pickle.load(f).  The file is
\* read as it stands at this step.
LoadPickle(t) ==
    /\ pc[t] = "ld_load"
    /\ buf' = [buf EXCEPT ![t] = [read |-> TRUE, data |-> disk.data]]
    /\ hist' = [hist EXCEPT !.diskReads = IF @ < 2 THEN @ + 1 ELSE @]
    /\ \E outcome \in Unpickle(disk.data) :
         IF outcome = "ok"
         THEN /\ pc' = [pc EXCEPT ![t] = "ld_assign"]
              /\ UNCHANGED << loadFor, ret >>
         ELSE Raise(t, "UnpicklingError")
    /\ UNCHANGED << disk, cached, op, woff, ver, nextVer >>
    /\ UNCHANGED << predictVars, dataset, analysisVars >>

\* _load_payload: _cached_payload = <the loaded object>; return it.
LoadAssign(t) ==
    /\ pc[t] = "ld_assign"
    /\ cached' = buf[t].data
    /\ Loaded(t, buf[t].data, hist)
    /\ UNCHANGED << disk, op, woff, ver, buf, nextVer >>
    /\ UNCHANGED << predictVars, dataset, analysisVars >>

\* The handler has returned; the thread is free for the next request.
Return(t) ==
    /\ pc[t] = "done"
    /\ pc' = [pc EXCEPT ![t] = "idle"]
    /\ op' = [op EXCEPT ![t] = "none"]
    /\ woff' = [woff EXCEPT ![t] = 0]
    /\ ver' = [ver EXCEPT ![t] = 0]
    /\ buf' = [buf EXCEPT ![t] = NoRead]
    /\ loadFor' = [loadFor EXCEPT ![t] = "none"]
    /\ ret' = [ret EXCEPT ![t] = NoRet]
    /\ hist' = [hist EXCEPT !.stale[t] = {}, !.fileAtCall[t] = FALSE]
    /\ UNCHANGED << disk, cached, nextVer >>
    /\ UNCHANGED << predictVars, dataset, analysisVars >>

----------------------------------------------------------------------------
(* ml_analysis/analysis_service.py: the cluster result and its slot _cache. *)

MaxCalls         == 3   \* get_student_clusters calls in one behaviour
MaxInvalidations == 2   \* invalidate_cache calls in one behaviour

\* _cache = None.  A result is identified by the run_clustering computation
\* that built it (run) and carries the number of invalidations that had
\* completed when that computation read the dataset (gen).
NoCluster == [run |-> 0, gen |-> 0]

NoClusterRet == [kind |-> "none", value |-> NoCluster, http |-> 0]

\* GET /api/student-clusters: FileNotFoundError becomes HTTP 503, any other
\* exception HTTP 500.
student_clusters(kind) ==
    IF kind = "FileNotFoundError" THEN 503
    ELSE IF kind = "result" THEN 200
    ELSE 500

\* An exception leaves run_clustering, and get_student_clusters, in thread t.
ClusterRaise(t, exc) ==
    /\ cret' = [cret EXCEPT ![t] = [kind |-> exc, value |-> NoCluster,
                                    http |-> student_clusters(exc)]]
    /\ cpc' = [cpc EXCEPT ![t] = "done"]

\* A request thread calls get_student_clusters(force_recompute=f).
StartClusters(t, f) ==
    /\ cpc[t] = "idle"
    /\ calls < MaxCalls
    /\ calls' = calls + 1
    /\ force_recompute' = [force_recompute EXCEPT ![t] = f]
    /\ cpc' = [cpc EXCEPT ![t] = "gc_check"]
    /\ chist' = [chist EXCEPT !.callGen[t] = chist.gen,
                              !.callRuns[t] = runs,
                              !.afterInvalidate[t] = chist.lastInvalidate,
                              !.lastInvalidate = FALSE,
                              !.entered[t] = FALSE,
                              !.cacheAtCall[t] = _cache,
                              !.forced = @ \/ f]
    /\ UNCHANGED << _cache, computed, cret, runs >>
    /\ UNCHANGED << predictVars, cacheVars, dataset, pureVars >>

\* Mutant: a forced call discards the cached result before it recomputes.
GcCheck_discards_first(t) ==
    /\ cpc[t] = "gc_check"
    /\ IF _cache = NoCluster \/ force_recompute[t]
       THEN /\ cpc' = [cpc EXCEPT ![t] = "rc_exists"]
            /\ chist' = [chist EXCEPT !.entered[t] = TRUE]
            /\ _cache' = NoCluster
       ELSE /\ cpc' = [cpc EXCEPT ![t] = "gc_return"]
            /\ UNCHANGED << chist, _cache >>
    /\ UNCHANGED << force_recompute, computed, cret, runs, calls >>
    /\ UNCHANGED << predictVars, cacheVars, dataset, pureVars >>

\* if _cache is None or force_recompute: run_clustering is called.
GcCheck(t) ==
    /\ cpc[t] = "gc_check"
    /\ IF _cache = NoCluster \/ force_recompute[t]
       THEN /\ cpc' = [cpc EXCEPT ![t] = "rc_exists"]
            /\ chist' = [chist EXCEPT !.entered[t] = TRUE]
       ELSE /\ cpc' = [cpc EXCEPT ![t] = "gc_return"]
            /\ UNCHANGED chist
    /\ UNCHANGED << _cache, force_recompute, computed, cret, runs, calls >>
    /\ UNCHANGED << predictVars, cacheVars, dataset, pureVars >>

RcExists_empty_result(t) ==
    /\ cpc[t] = "rc_exists"
    /\ IF dataset.exists
       THEN /\ cpc' = [cpc EXCEPT ![t] = "rc_read"]
            /\ UNCHANGED cret
       ELSE /\ cpc' = [cpc EXCEPT ![t] = "gc_assign"]
            /\ UNCHANGED cret
    /\ UNCHANGED << _cache, force_recompute, computed, runs, calls, chist >>
    /\ UNCHANGED << predictVars, cacheVars, dataset, pureVars >>

\* run_clustering: if not os.path.exists(DATASET_PATH): raise
\* FileNotFoundError.
RcExists(t) ==
    /\ cpc[t] = "rc_exists"
    /\ IF dataset.exists
       THEN /\ cpc' = [cpc EXCEPT ![t] = "rc_read"]
            /\ UNCHANGED cret
       ELSE ClusterRaise(t, "FileNotFoundError")
    /\ UNCHANGED << _cache, force_recompute, computed, runs, calls, chist >>
    /\ UNCHANGED << predictVars, cacheVars, dataset, pureVars >>

\* run_clustering: pd.read_csv(DATASET_PATH), then the feature-column check.
RcRead(t) ==
    /\ cpc[t] = "rc_read"
    /\ IF FEATURE_COLS \ dataset.columns # {}
       THEN /\ ClusterRaise(t, "ValueError")
            /\ UNCHANGED computed
       ELSE /\ computed' = [computed EXCEPT ![t] = [run |-> 0, gen |-> chist.gen]]
            /\ cpc' = [cpc EXCEPT ![t] = "rc_compute"]
            /\ UNCHANGED cret
    /\ UNCHANGED << _cache, force_recompute, runs, calls, chist >>
    /\ UNCHANGED << predictVars, cacheVars, dataset, pureVars >>

\* run_clustering, lines 267-333: the sweep, t-SNE, K-Means and the result
\* dict, a new object at every call.
RcCompute(t) ==
    /\ cpc[t] = "rc_compute"
    /\ runs' = runs + 1
    /\ computed' = [computed EXCEPT ![t].run = runs + 1]
    /\ cpc' = [cpc EXCEPT ![t] = "gc_assign"]
    /\ UNCHANGED << _cache, force_recompute, cret, calls, chist >>
    /\ UNCHANGED << predictVars, cacheVars, dataset, pureVars >>

\* _cache = run_clustering()
GcAssign(t) ==
    /\ cpc[t] = "gc_assign"
    /\ _cache' = computed[t]
    /\ cpc' = [cpc EXCEPT ![t] = "gc_return"]
    /\ UNCHANGED << force_recompute, computed, cret, runs, calls, chist >>
    /\ UNCHANGED << predictVars, cacheVars, dataset, pureVars >>

\* return _cache: the global is read again.
GcReturn(t) ==
    /\ cpc[t] = "gc_return"
    /\ cret' = [cret EXCEPT ![t] = [kind |-> "result", value |-> _cache,
                                    http |-> student_clusters("result")]]
    /\ cpc' = [cpc EXCEPT ![t] = "done"]
    /\ UNCHANGED << _cache, force_recompute, computed, runs, calls, chist >>
    /\ UNCHANGED << predictVars, cacheVars, dataset, pureVars >>

\* The request of thread t is over.
ClustersReturn(t) ==
    /\ cpc[t] = "done"
    /\ cpc' = [cpc EXCEPT ![t] = "idle"]
    /\ cret' = [cret EXCEPT ![t] = NoClusterRet]
    /\ computed' = [computed EXCEPT ![t] = NoCluster]
    /\ force_recompute' = [force_recompute EXCEPT ![t] = FALSE]
    /\ UNCHANGED << _cache, runs, calls, chist >>
    /\ UNCHANGED << predictVars, cacheVars, dataset, pureVars >>

invalidate_cache_noop(t) ==
    /\ cpc[t] = "idle"
    /\ chist.gen < MaxInvalidations
    /\ _cache' = _cache
    /\ chist' = [chist EXCEPT !.gen = @ + 1, !.lastInvalidate = TRUE]
    /\ UNCHANGED << cpc, force_recompute, computed, cret, runs, calls >>
    /\ UNCHANGED << predictVars, cacheVars, dataset, pureVars >>

\* invalidate_cache(), called by thread t (the batch worker when a batch is
\* done, clear_batch_data, reset_demo_data, the startup seed thread).
invalidate_cache(t) ==
    /\ cpc[t] = "idle"
    /\ chist.gen < MaxInvalidations
    /\ _cache' = NoCluster
    /\ chist' = [chist EXCEPT !.gen = @ + 1, !.lastInvalidate = TRUE]
    /\ UNCHANGED << cpc, force_recompute, computed, cret, runs, calls >>
    /\ UNCHANGED << predictVars, cacheVars, dataset, pureVars >>

\* A training run elsewhere finds no dataset file and generates one
\* (train.py:load_or_generate_dataset).
DatasetGenerated ==
    /\ ~dataset.exists
    /\ dataset' = load_or_generate_dataset(dataset)
    /\ UNCHANGED clusterVars
    /\ UNCHANGED << predictVars, cacheVars, pureVars >>

\* The files an operator can leave at DATASET_PATH: none, a generated
\* dataset, or a CSV that lacks a column.
OperatorFiles ==
    { NoDataset, generate_dataset }
    \cup { [generate_dataset EXCEPT !.columns = @ \ {c}] :
             c \in { "study_hours_per_day", TARGET_COL } }

\* The operator removes or replaces data/student_data.csv while the server
\* runs; no code of the server does.
DatasetReplaced ==
    /\ dataset' \in OperatorFiles \ {dataset}
    /\ UNCHANGED clusterVars
    /\ UNCHANGED << predictVars, cacheVars, pureVars >>

----------------------------------------------------------------------------
(* ml_analysis/clustering.py: the cluster-count sweep.                     *)

\* K_RANGE = list(range(2, 9))
K_RANGE == [i \in 1..7 |-> i + 1]

NoValidation == [ k_values |-> << >>, silhouette_scores |-> << >>,
                  optimal_k |-> 0, optimal_silhouette |-> 0 ]

\* Sample values of silhouette_score, in units of 1e-5: a negative one, and
\* two that differ but round to the same fourth decimal.
SilhouetteValues == { -1250, 31204, 52341, 52344 }

_compute_validation_metrics_last_max(raw) ==
    LET sil_scores == [i \in 1..Len(K_RANGE) |-> Round4(raw[i])]
        best_idx   == CHOOSE i \in 1..Len(sil_scores) :
                        \A j \in 1..Len(sil_scores) :
                            \/ sil_scores[j] < sil_scores[i]
                            \/ sil_scores[j] = sil_scores[i] /\ j <= i
    IN  [ k_values           |-> K_RANGE,
          silhouette_scores  |-> sil_scores,
          optimal_k          |-> K_RANGE[best_idx],
          optimal_silhouette |-> sil_scores[best_idx] ]

\* _compute_validation_metrics.  raw[i] is silhouette_score(X_scaled, labels)
\* of the K-Means fit with k = K_RANGE[i]; the score is rounded to four
\* decimals before np.argmax sees it.  (The inertias and the sentence
\* selection_method are not modelled: nothing reads them.)
_compute_validation_metrics(raw) ==
    LET sil_scores == [i \in 1..Len(K_RANGE) |-> Round4(raw[i])]
        best_idx   == ArgMax(sil_scores)
    IN  [ k_values           |-> K_RANGE,
          silhouette_scores  |-> sil_scores,
          optimal_k          |-> K_RANGE[best_idx],
          optimal_silhouette |-> sil_scores[best_idx] ]

\* One call of _compute_validation_metrics on the drawn scores.
SweepCall ==
    /\ validation = NoValidation
    /\ validation' = _compute_validation_metrics(sil_raw)
    /\ UNCHANGED sil_raw
    /\ UNCHANGED << predictVars, cacheVars, dataset, clusterVars, interpretVars,
                    runVars, serviceVars >>

----------------------------------------------------------------------------
(* ml_analysis/clustering.py: ranking the clusters and labelling them.     *)

\* Sample values of n_clusters (optimal_k, an element of K_RANGE): one for
\* each branch of _get_cluster_labels.
NClustersValues == { 2, 3, 4, 5 }

\* clustering.py's own FEATURE_COLS, in column order.
ClusterFeatureCols == << "attendance_percentage", "internal_marks",
                         "assignment_score", "study_hours_per_day" >>

\* _get_cluster_labels(n): the labels ordered best -> worst.
_get_cluster_labels(n) ==
    IF n = 2 THEN << "High Performing Group", "At-Risk Behaviour Group" >>
    ELSE IF n = 3 THEN << "High Performing Group", "Average Learners Group",
                          "At-Risk Behaviour Group" >>
    ELSE IF n = 4 THEN << "High Performing Group",
                          "Above Average Learners Group",
                          "Below Average Learners Group",
                          "At-Risk Behaviour Group" >>
    ELSE << "High Performing Group" >>
         \o [i \in 1..(n - 2) |->
                << "Learner Group 1", "Learner Group 2", "Learner Group 3",
                   "Learner Group 4", "Learner Group 5", "Learner Group 6" >>[i]]
         \o << "At-Risk Behaviour Group" >>

\* Sample rows of per-cluster feature means (study hours in tenths of an
\* hour): a high, a middle and a low profile, and a mixed one whose
\* composite lies close to the middle profile's.
MeanProfiles ==
    { [f \in FEATURE_COLS |->
        CASE f = "attendance_percentage" -> v[1]
          [] f = "internal_marks"        -> v[2]
          [] f = "assignment_score"      -> v[3]
          [] f = "study_hours_per_day"   -> v[4]] :
      v \in { << 90, 80, 80, 50 >>, << 60, 55, 60, 30 >>,
              << 40, 30, 35, 10 >>, << 90, 30, 35, 50 >> } }

\* means.min() and means.max() - means.min() of column f.
ColMin(m, f) ==
    CHOOSE x \in { m[c][f] : c \in DOMAIN m } :
        \A c \in DOMAIN m : x <= m[c][f]

ColRange(m, f) ==
    (CHOOSE x \in { m[c][f] : c \in DOMAIN m } :
        \A c \in DOMAIN m : x >= m[c][f]) - ColMin(m, f)

\* The denominator means.max() - means.min() + 1e-9 of column f.  The
\* arithmetic is exact here and 1e-9 is below what it resolves: its one
\* effect is that a column of range 0 divides 0 by something positive.
ColDen(m, f) == IF ColRange(m, f) = 0 THEN 1 ELSE ColRange(m, f)

\* normed.mean(axis=1): the composite of every cluster id of m, each times
\* four times the product of the four denominators (one positive factor for
\* all clusters, so the order of the composites is kept).
Composites(m) ==
    LET lo   == [f \in FEATURE_COLS |-> ColMin(m, f)]
        den  == [f \in FEATURE_COLS |-> ColDen(m, f)]
        prod == den[ClusterFeatureCols[1]] * den[ClusterFeatureCols[2]]
                    * den[ClusterFeatureCols[3]] * den[ClusterFeatureCols[4]]
        normed == [c \in DOMAIN m |-> [f \in FEATURE_COLS |->
                      (m[c][f] - lo[f]) * (prod \div den[f])]]
    IN  [c \in DOMAIN m |->
            normed[c][ClusterFeatureCols[1]] + normed[c][ClusterFeatureCols[2]]
                + normed[c][ClusterFeatureCols[3]]
                + normed[c][ClusterFeatureCols[4]]]

\* composite.sort_values(ascending=False) over the cluster ids S: every
\* order in which the composite never increases (equal composites may come
\* out in either order).
RECURSIVE sort_values(_, _)
sort_values(composite, S) ==
    IF S = {} THEN { << >> }
    ELSE UNION { { << c >> \o o : o \in sort_values(composite, S \ {c}) } :
                 c \in { c \in S : \A d \in S :
                            composite[c] >= composite[d] } }

_interpret_clusters_worst_first(m, n) ==
    LET composite == Composites(m)
    IN  { [ c \in DOMAIN m |->
              _get_cluster_labels(n)[
                  CHOOSE rank \in 1..Len(o) : o[Len(o) + 1 - rank] = c] ] :
          o \in sort_values(composite, DOMAIN m) }

\* _interpret_clusters: the dicts {cid: labels[rank]} it can return.
_interpret_clusters(m, n) ==
    LET composite == Composites(m)
    IN  { [ c \in DOMAIN m |->
              _get_cluster_labels(n)[CHOOSE rank \in 1..Len(o) : o[rank] = c] ] :
          o \in sort_values(composite, DOMAIN m) }

NoInterpretation == [done |-> FALSE, labels |-> << >>]

\* One call of _interpret_clusters on the drawn means.
InterpretCall ==
    /\ ~interpretation.done
    /\ \E d \in _interpret_clusters(means, n_clusters) :
         interpretation' = [done |-> TRUE, labels |-> d]
    /\ UNCHANGED << n_clusters, means >>
    /\ UNCHANGED << predictVars, cacheVars, dataset, clusterVars, sweepVars,
                    runVars, serviceVars >>

----------------------------------------------------------------------------
(* ml_analysis/clustering.py: run_clustering.                              *)

ANALYSIS_SAMPLE == 2000

\* The dataframe is held as the number of rows of each kind; the rows of one
\* kind carry the same four features (study hours in tenths of an hour).
RowKinds == { 1, 2, 3 }

RowProfiles ==
    [ kind \in RowKinds |-> [f \in FEATURE_COLS |->
        LET v == << << 90, 80, 80, 50 >>, << 60, 55, 60, 30 >>,
                    << 40, 30, 35, 10 >> >>[kind]
        IN  CASE f = "attendance_percentage" -> v[1]
              [] f = "internal_marks"        -> v[2]
              [] f = "assignment_score"      -> v[3]
              [] f = "study_hours_per_day"   -> v[4]] ]

\* Sample row counts: datasets of 2 and 3 rows, and datasets just below, at
\* and above ANALYSIS_SAMPLE rows.
MainCounts  == { 1, 999, 1000, 1001 }
ThirdCounts == { 0, 1, 999, 1000, 1001 }

\* The silhouette scores of the sweeps sampled for run_clustering: the best
\* k is 2, is 3, or is 3 tied after rounding with 5.
SweepSamples ==
    { << 52341, 31204, 31204, -1250, -1250, -1250, -1250 >>,
      << 31204, 52344, 31204, 31204, -1250, -1250, -1250 >>,
      << 31204, 52341, 31204, 52344, -1250, -1250, -1250 >> }

RECURSIVE SumOver(_, _)
SumOver(f, S) ==
    IF S = {} THEN 0
    ELSE LET x == CHOOSE y \in S : TRUE
         IN  f[x] + SumOver(f, S \ {x})

\* len(df)
Rows(df) == SumOver(df, RowKinds)

df_sample_never(df) == { df }

\* df.sample(ANALYSIS_SAMPLE, random_state=RANDOM_STATE) when len(df) >
\* ANALYSIS_SAMPLE, df itself otherwise.  Which rows the seeded generator
\* keeps is not modelled: any ANALYSIS_SAMPLE of the rows may be kept (the
\* per-kind numbers are taken from the sample counts and their neighbours).
df_sample(df) ==
    IF Rows(df) > ANALYSIS_SAMPLE
    THEN { s \in [RowKinds -> ThirdCounts \cup { c - 1 : c \in MainCounts }] :
            /\ \A kind \in RowKinds : s[kind] <= df[kind]
            /\ Rows(s) = ANALYSIS_SAMPLE }
    ELSE { df }

\* kmeans.fit_predict(X_scaled): a cluster id below k for every row, equal
\* rows getting equal ids.  Which ids K-Means gives is not modelled.
fit_predict(df, k) == [ { kind \in RowKinds : df[kind] > 0 } -> 0..(k - 1) ]

\* len(grp) for grp = df[df["cluster"] == cid]
GroupCount(df, cluster_labels, cid) ==
    SumOver([kind \in DOMAIN cluster_labels |->
                IF cluster_labels[kind] = cid THEN df[kind] ELSE 0],
            DOMAIN cluster_labels)

\* round(float(grp[f].mean()), 2), in hundredths.  A percentage is held in
\* units, the study hours in tenths.
GroupMean(df, cluster_labels, cid, f) ==
    LET total == SumOver([kind \in DOMAIN cluster_labels |->
                            IF cluster_labels[kind] = cid
                            THEN df[kind] * RowProfiles[kind][f] ELSE 0],
                         DOMAIN cluster_labels)
        num == total * (IF f = "study_hours_per_day" THEN 10 ELSE 100)
        n   == GroupCount(df, cluster_labels, cid)
        q   == num \div n
        r2  == 2 * (num % n)
    IN  IF r2 < n THEN q
        ELSE IF r2 > n THEN q + 1
        ELSE IF q % 2 = 0 THEN q ELSE q + 1

\* _generate_cluster_insight: the template the interpretation selects (the
\* wording is not modelled).
_generate_cluster_insight(interp) ==
    IF interp = "High Performing Group" THEN "high performing"
    ELSE IF interp = "At-Risk Behaviour Group" THEN "at risk"
    ELSE IF interp = "Above Average Learners Group" THEN "above average"
    ELSE IF interp = "Below Average Learners Group" THEN "below average"
    ELSE "middle tier"

\* sorted(S) for a set of cluster ids.
RECURSIVE sorted(_)
sorted(S) ==
    IF S = {} THEN << >>
    ELSE LET lo == CHOOSE x \in S : \A y \in S : x <= y
         IN  << lo >> \o sorted(S \ {lo})

\* The summary card of cluster cid.
Card(df, cluster_labels, interpretation_map, cid) ==
    [ cluster_id      |-> cid,
      student_count   |-> GroupCount(df, cluster_labels, cid),
      avg_attendance  |-> GroupMean(df, cluster_labels, cid,
                                    "attendance_percentage"),
      avg_marks       |-> GroupMean(df, cluster_labels, cid, "internal_marks"),
      avg_assignments |-> GroupMean(df, cluster_labels, cid,
                                    "assignment_score"),
      avg_study_hours |-> GroupMean(df, cluster_labels, cid,
                                    "study_hours_per_day"),
      interpretation  |-> interpretation_map[cid],
      insight         |-> _generate_cluster_insight(interpretation_map[cid]) ]

Cards_but_last(df, cluster_labels, interpretation_map) ==
    LET ids == sorted({ cluster_labels[kind] : kind \in DOMAIN cluster_labels })
    IN  [ i \in 1..(Len(ids) - 1) |->
            Card(df, cluster_labels, interpretation_map, ids[i]) ]

\* The summary cards, one for every cid of sorted(df["cluster"].unique()).
Cards(df, cluster_labels, interpretation_map) ==
    LET ids == sorted({ cluster_labels[kind] : kind \in DOMAIN cluster_labels })
    IN  [ i \in 1..Len(ids) |->
            Card(df, cluster_labels, interpretation_map, ids[i]) ]

\* The scatter points, one for every row of df; the points of equal rows
\* are held together with their number n.  (The t-SNE coordinates are not
\* modelled.)
Points(df, cluster_labels) ==
    LET kinds == sorted(DOMAIN cluster_labels)
    IN  [ i \in 1..Len(kinds) |->
            [ kind    |-> kinds[i],
              cluster |-> cluster_labels[kinds[i]],
              n       |-> df[kinds[i]] ] ]

\* _interpret_clusters(df, optimal_k) as run_clustering sees it.  The means
\* of some thousand rows are fractions that Composites cannot rank exactly
\* in this arithmetic, so every ranking of the cluster ids is allowed here.
InterpretationMaps(ids, k) ==
    { [ c \in ids |->
          _get_cluster_labels(k)[CHOOSE rank \in 1..Len(o) : o[rank] = c] ] :
      o \in sort_values([c \in ids |-> 0], ids) }

NoAnalysis ==
    [ kind |-> "none", total_students |-> 0, optimal_k |-> 0,
      validation |-> NoValidation, clusters |-> << >>, points |-> << >> ]

\* run_clustering from the subsample step on, for the rows file read from
\* the dataset and the silhouette scores raw of the sweep: every result it
\* can return.  KMeans(n_clusters=k) raises ValueError when the dataframe
\* has fewer than k rows, which the sweep reaches with its last k.
run_clustering(file, raw) ==
    IF Rows(file) < K_RANGE[Len(K_RANGE)]
    THEN { [NoAnalysis EXCEPT !.kind = "ValueError"] }
    ELSE LET v == _compute_validation_metrics(raw)
             optimal_k == v.optimal_k
         IN  UNION { UNION { {
                [ kind           |-> "result",
                  total_students |-> Rows(df),
                  optimal_k      |-> optimal_k,
                  validation     |-> v,
                  clusters       |-> Cards(df, cluster_labels,
                                           interpretation_map),
                  points         |-> Points(df, cluster_labels) ] :
                interpretation_map \in InterpretationMaps(
                    { cluster_labels[kind] : kind \in DOMAIN cluster_labels },
                    optimal_k) } :
             cluster_labels \in fit_predict(df, optimal_k) } :
             df \in df_sample(file) }

\* One call of run_clustering on the drawn dataset.
RunClustering ==
    /\ analysis.kind = "none"
    /\ analysis' \in run_clustering(csv_rows, sil_raw)
    /\ UNCHANGED << csv_rows, sil_raw, validation >>
    /\ UNCHANGED << predictVars, cacheVars, dataset, clusterVars, interpretVars,
                    serviceVars >>

----------------------------------------------------------------------------
(* database.py: _retry_on_locked.                                          *)

\* What one call of fn() does: it returns; it raises sqlite3.OperationalError
\* with "locked" in its lower-cased message; it raises OperationalError with
\* another message; it raises another exception.
FnResults == { "ok", "locked", "operational", "error" }

\* max_retries=3, the default every caller in database.py uses.
DEFAULT_MAX_RETRIES == 3

NotRetried == [ kind |-> "none", raised |-> "none" ]

\* Mutant: every OperationalError is retried.
_retry_on_any_operational_error ==
    /\ retried.kind = "running"
    /\ attempt < max_retries
    /\ fn_calls' = fn_calls + 1
    /\ LET r == fn_results[fn_calls + 1]
       IN  IF r = "ok"
           THEN /\ retried' = [kind |-> "returned", raised |-> "none"]
                /\ UNCHANGED attempt
           ELSE IF r \in { "locked", "operational" }
                   /\ attempt < max_retries - 1
           THEN /\ attempt' = attempt + 1
                /\ UNCHANGED retried
           ELSE /\ retried' = [kind |-> "raised", raised |-> r]
                /\ UNCHANGED attempt
    /\ UNCHANGED << fn_results, max_retries >>
    /\ UNCHANGED << predictVars, cacheVars, dataset, clusterVars, sweepVars,
                    interpretVars, runVars, batchVars, db, reset >>

\* One pass of "for attempt in range(max_retries)": fn() is called; its
\* result is returned; an OperationalError is swallowed, followed by a sleep
\* and the next pass, when its message holds "locked" and a pass is left, and
\* raised again otherwise; any other exception leaves the function at once.
_retry_on_locked ==
    /\ retried.kind = "running"
    /\ attempt < max_retries
    /\ fn_calls' = fn_calls + 1
    /\ LET r == fn_results[fn_calls + 1]
       IN  IF r = "ok"
           THEN /\ retried' = [kind |-> "returned", raised |-> "none"]
                /\ UNCHANGED attempt
           ELSE IF r = "locked" /\ attempt < max_retries - 1
           THEN /\ attempt' = attempt + 1
                /\ UNCHANGED retried
           ELSE /\ retried' = [kind |-> "raised", raised |-> r]
                /\ UNCHANGED attempt
    /\ UNCHANGED << fn_results, max_retries >>
    /\ UNCHANGED << predictVars, cacheVars, dataset, clusterVars, sweepVars,
                    interpretVars, runVars, batchVars, db, reset >>

----------------------------------------------------------------------------
(* main.py: _run_prediction, the batch worker and the progress endpoint.   *)

MaxUploads == 2     \* uploads of the CSV in one behaviour

\* A CSV that passes the checks of batch_upload: `valid` rows that parse as
\* StudentInput, each of another student, then `malformed` rows on which
\* StudentInput(...) raises (a metric that is no number, or out of range).
CsvSamples == [ valid : { 1, 2 }, malformed : { 0, 1, 11 } ]

\* len(rows)
Total(file) == file.valid + file.malformed

\* The tables at first launch, for a set of student ids.
EmptyDb(ids) == [ predictions    |-> [sid \in ids |-> 0],
                  batch_jobs     |-> << >>,
                  advisory_cache |-> {} ]

\* What the steps of one prediction do: predictor.predict returns or raises;
\* the advisory call returns a dict, returns None, runs into the 22 s
\* timeout or raises; the cache write and the insert succeed or raise.
RunOutcomes ==
    [ ml       : { "ok", "FileNotFoundError", "error" },
      advisory : { "ok", "none", "timeout", "raises" },
      write    : { "ok", "fails" },
      insert   : { "ok", "fails" } ]

NoRecord == [ student_id |-> 0 ]

NoRun == [ outcomes |-> [ml |-> "none", advisory |-> "none",
                         write |-> "none", insert |-> "none"],
           raised |-> 0, record |-> NoRecord ]

\* predictor.predict on the features of the student (here the same vector
\* and forest for every student).
ml_result == predict(X, proba, CHOOSE si \in argsort_reversed(importances) : TRUE)

\* ai_advisory.advisor._metrics_hash(student_id, attendance, marks,
\* assignment, hours): equal for equal arguments, different otherwise.
_metrics_hash(student_id, metrics) == << student_id, metrics >>

\* The advisory dict _run_prediction goes on with: the one the call returned,
\* or the local one when the call failed or returned None.  risk_factors is
\* _build_risk_factors(...) of the four metrics in both.
Advisory(o) ==
    IF o.advisory = "ok"
    THEN [ explanation |-> "generated", risk_factors |-> "_build_risk_factors",
           ai_provider |-> "gemini" ]
    ELSE [ explanation |-> "", risk_factors |-> "_build_risk_factors",
           ai_provider |-> "none" ]

\* The record both prediction paths build from ml_result and an advisory.
Record(student_id, ml, advisory, failed) ==
    [ student_id         |-> student_id,
      risk_level         |-> ml.risk_level,
      confidence         |-> ml.confidence,
      probabilities      |-> ml.probabilities,
      key_factors        |-> ml.key_factors,
      explanation        |-> advisory.explanation,
      risk_factors       |-> advisory.risk_factors,
      ai_provider        |-> advisory.ai_provider,
      ai_advisory_failed |-> failed ]

\* Mutant: an advisory that had to be built locally is not cached.
_run_prediction_caches_generated_only(student_id, ml, o, d) ==
    IF o.ml # "ok"
    THEN [ raised |-> IF o.ml = "FileNotFoundError" THEN 503 ELSE 500,
           record |-> NoRecord, db |-> d ]
    ELSE LET failed  == o.advisory \in { "timeout", "raises" }
             key     == _metrics_hash(student_id, "metrics")
             written == IF o.write = "ok" /\ o.advisory = "ok"
                        THEN [d EXCEPT !.advisory_cache = @ \cup {key}]
                        ELSE d
             stored  == IF o.insert = "ok"
                        THEN [written EXCEPT !.predictions[student_id] = @ + 1]
                        ELSE written
         IN  [ raised |-> 0,
               record |-> Record(student_id, ml, Advisory(o), failed),
               db     |-> stored ]

\* Mutant: a failed insert of the prediction is an HTTP 500.
_run_prediction_insert_fatal(student_id, ml, o, d) ==
    IF o.ml # "ok"
    THEN [ raised |-> IF o.ml = "FileNotFoundError" THEN 503 ELSE 500,
           record |-> NoRecord, db |-> d ]
    ELSE LET failed  == o.advisory \in { "timeout", "raises" }
             key     == _metrics_hash(student_id, "metrics")
             written == IF o.write = "ok"
                        THEN [d EXCEPT !.advisory_cache = @ \cup {key}]
                        ELSE d
         IN  IF o.insert = "ok"
             THEN [ raised |-> 0,
                    record |-> Record(student_id, ml, Advisory(o), failed),
                    db     |-> [written EXCEPT
                                  !.predictions[student_id] = @ + 1] ]
             ELSE [ raised |-> 500, record |-> NoRecord, db |-> written ]

\* _run_prediction(student, batch_id) on tables d, with ml what predict
\* returns when it returns and o what the steps of the call do: the
\* HTTP status it raises (0 for none), the record it returns, the tables it
\* leaves.  A failure of predict is an HTTPException; a failure of the
\* advisory call, of the cache write or of the insert is logged only.
_run_prediction(student_id, ml, o, d) ==
    IF o.ml # "ok"
    THEN [ raised |-> IF o.ml = "FileNotFoundError" THEN 503 ELSE 500,
           record |-> NoRecord, db |-> d ]
    ELSE LET failed  == o.advisory \in { "timeout", "raises" }
             key     == _metrics_hash(student_id, "metrics")
             written == IF o.write = "ok"
                        THEN [d EXCEPT !.advisory_cache = @ \cup {key}]
                        ELSE d
             stored  == IF o.insert = "ok"
                        THEN [written EXCEPT !.predictions[student_id] = @ + 1]
                        ELSE written
         IN  [ raised |-> 0,
               record |-> Record(student_id, ml, Advisory(o), failed),
               db     |-> stored ]

\* _run_prediction_from_cache(student, cached, batch_id): no advisory call;
\* an exception of predict or of insert_prediction leaves the function.
_run_prediction_from_cache(student_id, ml, o, d) ==
    IF o.ml # "ok" \/ o.insert # "ok"
    THEN [ raised |-> 500, record |-> NoRecord, db |-> d ]
    ELSE [ raised |-> 0,
           record |-> Record(student_id, ml,
                             [ explanation |-> "cached",
                               risk_factors |-> "cached",
                               ai_provider |-> "cached" ], FALSE),
           db     |-> [d EXCEPT !.predictions[student_id] = @ + 1] ]

NoWorker == [ pc |-> "none", batch_id |-> 0, i |-> 0, results |-> 0,
              errors |-> 0, cache_hits |-> 0, ai_generated |-> 0 ]

\* POST /api/batch-upload with the CSV: a batch_jobs row, a progress dict and
\* a worker thread for a new batch id.  Uploads come one after the other.
batch_upload ==
    /\ worker.pc \in { "none", "finished" }
    /\ Len(_batch_progress) < MaxUploads
    /\ LET batch_id == Len(_batch_progress) + 1
       IN  /\ db' = [db EXCEPT !.batch_jobs =
                        (batch_id :> [ total_rows |-> Total(csv),
                                       processed |-> 0,
                                       status |-> "pending" ]) @@ @]
           /\ _batch_progress' = Append(_batch_progress,
                  [ total |-> Total(csv), processed |-> 0, cache_hits |-> 0,
                    ai_generated |-> 0, status |-> "processing",
                    errors |-> 0, results |-> 0 ])
           /\ worker' = [NoWorker EXCEPT !.pc = "rows", !.batch_id = batch_id]
    /\ UNCHANGED << csv, last_run, bhist >>
    /\ UNCHANGED << predictVars, cacheVars, dataset, clusterVars, sweepVars,
                    interpretVars, runVars, retryVars, reset >>

\* The steps that run for a row: none when the row does not parse; predict
\* and the insert when its advisory is cached; all of them otherwise.
StepsOf(parsed, hit) ==
    IF ~parsed THEN { NoRun.outcomes }
    ELSE IF hit
    THEN { o \in RunOutcomes : o.advisory = "none" /\ o.write = "ok" }
    ELSE RunOutcomes

\* _process_batch_worker: one pass of the loop over the rows.
\* A row that does not parse, or whose prediction raises, is counted in
\* errors; cache_hits and ai_generated are counted before the prediction runs.
WorkerRow ==
    /\ worker.pc = "rows"
    /\ worker.i < Total(csv)
    /\ LET ml     == ml_result
           row    == worker.i + 1
           parsed == row <= csv.valid
           hit    == _metrics_hash(row, "metrics") \in db.advisory_cache
       IN \E o \in StepsOf(parsed, hit) :
        LET
            run    == IF hit THEN _run_prediction_from_cache(row, ml, o, db)
                      ELSE _run_prediction(row, ml, o, db)
            ok     == parsed /\ run.raised = 0
            w      == [worker EXCEPT
                         !.i = row,
                         !.cache_hits = IF parsed /\ hit THEN @ + 1 ELSE @,
                         !.ai_generated = IF parsed /\ ~hit THEN @ + 1 ELSE @,
                         !.results = IF ok THEN @ + 1 ELSE @,
                         !.errors = IF ok THEN @ ELSE @ + 1]
        IN  /\ worker' = w
            /\ db' = IF parsed THEN run.db ELSE db
            /\ _batch_progress' =
                 [_batch_progress EXCEPT ![worker.batch_id] =
                    IF ok
                    THEN [@ EXCEPT !.processed = w.results,
                                   !.cache_hits = w.cache_hits,
                                   !.ai_generated = w.ai_generated,
                                   !.results = w.results]
                    ELSE [@ EXCEPT !.processed = w.results]]
            /\ last_run' = IF parsed /\ ~hit
                           THEN [ outcomes |-> o, raised |-> run.raised,
                                  record |-> run.record ]
                           ELSE last_run
            /\ bhist' = IF parsed /\ ~hit /\ o.ml = "ok" /\ o.write # "ok"
                        THEN [bhist EXCEPT !.write_failed = @ \cup {worker.batch_id}]
                        ELSE bhist
    /\ UNCHANGED csv
    /\ UNCHANGED << predictVars, cacheVars, dataset, clusterVars, sweepVars,
                    interpretVars, runVars, retryVars, reset >>

\* errors[:10]
ERRORS_KEPT == 10

\* _process_batch_worker after the loop: progress["status"] = "done".
WorkerDone ==
    /\ worker.pc = "rows"
    /\ worker.i = Total(csv)
    /\ _batch_progress' = [_batch_progress EXCEPT
                             ![worker.batch_id].status = "done"]
    /\ worker' = [worker EXCEPT !.pc = "finalize"]
    /\ UNCHANGED << csv, db, last_run, bhist >>
    /\ UNCHANGED << predictVars, cacheVars, dataset, clusterVars, sweepVars,
                    interpretVars, runVars, retryVars, reset >>

\* _process_batch_worker, the rest: the first ten errors, the results and the
\* counters go into the progress dict, the batch_jobs row is updated and the
\* cluster cache is invalidated.
WorkerFinalize ==
    /\ worker.pc = "finalize"
    /\ _batch_progress' = [_batch_progress EXCEPT ![worker.batch_id] =
          [@ EXCEPT !.errors = IF worker.errors < ERRORS_KEPT
                               THEN worker.errors ELSE ERRORS_KEPT,
                    !.results = worker.results,
                    !.cache_hits = worker.cache_hits,
                    !.ai_generated = worker.ai_generated]]
    /\ db' = IF worker.batch_id \in DOMAIN db.batch_jobs
             THEN [db EXCEPT !.batch_jobs[worker.batch_id] =
                      [@ EXCEPT !.processed = worker.results,
                                !.status = "done"]]
             ELSE db
    /\ _cache' = NoCluster
    /\ worker' = [worker EXCEPT !.pc = "finished"]
    /\ UNCHANGED << csv, last_run, bhist >>
    /\ UNCHANGED << cpc, force_recompute, computed, cret, runs, calls, chist >>
    /\ UNCHANGED << predictVars, cacheVars, dataset, sweepVars, interpretVars,
                    runVars, retryVars, reset >>

\* GET /api/batch/{batch_id}/progress: what a poll reports for a progress
\* dict.
batch_progress(progress) ==
    [ total        |-> progress.total,
      processed    |-> progress.processed,
      failed       |-> progress.errors,
      status       |-> progress.status,
      cache_hits   |-> progress.cache_hits,
      ai_generated |-> progress.ai_generated,
      results      |-> IF progress.status = "done" THEN progress.results
                       ELSE 0 ]

----------------------------------------------------------------------------
(* demo_seed.py: reset_demo_data.                                          *)

NDemo == 3      \* len(DEMO_STUDENTS), 25 in demo_seed.py

\* The student ids of DEMO_STUDENTS.
DEMO_STUDENTS == 1..NDemo

NoReset == [ pc |-> "none", i |-> 0, from_cache |-> FALSE, raised |-> 0 ]

\* reset_demo_data, lines 197-210: the tables predictions and batch_jobs are
\* cleared, the cluster cache is invalidated, _auto_train finds the model,
\* and the number of cached advisories decides between the two seeds.
reset_demo_data ==
    /\ reset.pc = "none"
    /\ db' = [db EXCEPT !.predictions = [sid \in DOMAIN @ |-> 0],
                        !.batch_jobs = << >>]
    /\ _cache' = NoCluster
    /\ reset' = [reset EXCEPT
                   !.pc = IF Cardinality(db.advisory_cache) >= NDemo
                          THEN "from_cache" ELSE "full"]
    /\ UNCHANGED << cpc, force_recompute, computed, cret, runs, calls, chist >>
    /\ UNCHANGED << predictVars, cacheVars, dataset, sweepVars, interpretVars,
                    runVars, retryVars, batchVars >>

\* _seed_from_cache: one pass of its loop.  A student whose advisory is not
\* cached makes it return -1, and reset_demo_data goes on with the full
\* seed; after the last student it returns the count and reset_demo_data
\* returns.  An exception of predict or of insert_prediction ends the reset.
_seed_from_cache ==
    /\ reset.pc = "from_cache"
    /\ \E o \in StepsOf(TRUE, TRUE) :
        LET sid == reset.i + 1
        IN  IF o.ml # "ok"
            THEN /\ reset' = [reset EXCEPT !.pc = "failed", !.raised = 500]
                 /\ UNCHANGED db
            ELSE IF _metrics_hash(sid, "metrics") \notin db.advisory_cache
            THEN /\ reset' = [reset EXCEPT !.pc = "full", !.i = 0]
                 /\ UNCHANGED db
            ELSE IF o.insert # "ok"
            THEN /\ reset' = [reset EXCEPT !.pc = "failed", !.raised = 500]
                 /\ UNCHANGED db
            ELSE /\ db' = [db EXCEPT !.predictions[sid] = @ + 1]
                 /\ reset' = IF sid = NDemo
                              THEN [reset EXCEPT !.pc = "done", !.i = sid,
                                                 !.from_cache = TRUE]
                              ELSE [reset EXCEPT !.i = sid]
    /\ UNCHANGED << predictVars, cacheVars, dataset, clusterVars, sweepVars,
                    interpretVars, runVars, retryVars, batchVars >>

\* seed_demo_data: one pass of its loop, _run_prediction(student); an
\* HTTPException of it ends the reset; after the last student
\* reset_demo_data returns.
seed_demo_data ==
    /\ reset.pc = "full"
    /\ LET ml == ml_result IN \E o \in RunOutcomes :
        LET sid == reset.i + 1
            run == _run_prediction(sid, ml, o, db)
        IN  IF run.raised # 0
            THEN /\ reset' = [reset EXCEPT !.pc = "failed",
                                           !.raised = run.raised]
                 /\ UNCHANGED db
            ELSE /\ db' = run.db
                 /\ reset' = IF sid = NDemo
                              THEN [reset EXCEPT !.pc = "done", !.i = sid,
                                                 !.from_cache = FALSE]
                              ELSE [reset EXCEPT !.i = sid]
    /\ UNCHANGED << predictVars, cacheVars, dataset, clusterVars, sweepVars,
                    interpretVars, runVars, retryVars, batchVars >>

----------------------------------------------------------------------------
(* Initial states and specifications.                                      *)

\* A fixed input for the specifications that are not about predict's result.
X0 == [ attendance_percentage |-> 100, internal_marks |-> 90,
        assignment_score |-> 90, study_hours_tenths |-> 50 ]

\* Process start: no thread runs, the slot is empty, model.pkl is absent or
\* is the artifact (version 0) an earlier process left.
InitCache ==
    /\ disk \in { NoFile, [exists |-> TRUE, data |-> Artifact(0)] }
    /\ cached = None
    /\ pc = [t \in Threads |-> "idle"]
    /\ op = [t \in Threads |-> "none"]
    /\ woff = [t \in Threads |-> 0]
    /\ ver = [t \in Threads |-> 0]
    /\ buf = [t \in Threads |-> NoRead]
    /\ loadFor = [t \in Threads |-> "none"]
    /\ ret = [t \in Threads |-> NoRet]
    /\ nextVer = 1
    /\ hist = [ closed     |-> IF disk.exists THEN {0} ELSE {},
                older      |-> [v \in 1..(MaxTrains + 1) |-> {}],
                fits       |-> [v \in 1..(MaxTrains + 1) |-> NoFit],
                retrained  |-> {},
                stale      |-> [t \in Threads |-> {}],
                fileAtCall |-> [t \in Threads |-> FALSE],
                diskReads  |-> 0 ]

\* Process start for the cluster service: nothing cached, no call made.
InitClusters ==
    /\ _cache = NoCluster
    /\ cpc = [t \in Threads |-> "idle"]
    /\ force_recompute = [t \in Threads |-> FALSE]
    /\ computed = [t \in Threads |-> NoCluster]
    /\ cret = [t \in Threads |-> NoClusterRet]
    /\ runs = 0
    /\ calls = 0
    /\ chist = [ gen             |-> 0,
                 lastInvalidate  |-> FALSE,
                 forced          |-> FALSE,
                 callGen         |-> [t \in Threads |-> 0],
                 callRuns        |-> [t \in Threads |-> 0],
                 afterInvalidate |-> [t \in Threads |-> FALSE],
                 entered         |-> [t \in Threads |-> FALSE],
                 cacheAtCall     |-> [t \in Threads |-> NoCluster] ]

\* No analysis function has been called.
InitPure ==
    /\ sil_raw = [i \in 1..Len(K_RANGE) |-> 0]
    /\ validation = NoValidation
    /\ n_clusters = 0
    /\ means = << >>
    /\ interpretation = NoInterpretation
    /\ csv_rows = [kind \in RowKinds |-> 0]
    /\ analysis = NoAnalysis

\* _retry_on_locked has not been called.
InitNoRetry ==
    /\ fn_results = << >>
    /\ max_retries = DEFAULT_MAX_RETRIES
    /\ attempt = 0
    /\ fn_calls = 0
    /\ retried = NotRetried

\* No CSV has been uploaded, no prediction stored.
InitNoBatch ==
    /\ csv = [ valid |-> 0, malformed |-> 0 ]
    /\ db = EmptyDb({})
    /\ _batch_progress = << >>
    /\ worker = NoWorker
    /\ last_run = NoRun
    /\ bhist = [ write_failed |-> {} ]
    /\ reset = NoReset

InitServices == InitNoRetry /\ InitNoBatch

InitAnalysis == InitClusters /\ InitPure /\ InitServices

\* Concurrent request threads.
Init ==
    /\ X = X0
    /\ proba = << 10000, 20000, 70000 >>
    /\ importances = << 4000, 3000, 2000, 1000 >>
    /\ result = NoResult
    /\ InitCache
    /\ dataset \in DatasetFiles
    /\ InitAnalysis

Next ==
    \E t \in Threads :
        \/ StartTrain(t)
        \/ StartScript(t)
        \/ StartRunPrediction(t)
        \/ StartPredict(t)
        \/ AutoTrainCheck(t)
        \/ TmFit(t)
        \/ TmOpen(t)
        \/ TmWrite(t)
        \/ ReloadClear(t)
        \/ LoadCheck(t)
        \/ LoadExists(t)
        \/ LoadPickle(t)
        \/ LoadAssign(t)
        \/ Return(t)

Spec == Init /\ [][Next]_vars

\* One handler at a time: a thread steps only while every other one is idle.
Alone(t) == \A u \in Threads \ {t} : pc[u] = "idle"

NextSeq ==
    \E t \in Threads :
        \/ Alone(t) /\ StartTrain(t)
        \/ Alone(t) /\ StartScript(t)
        \/ Alone(t) /\ StartRunPrediction(t)
        \/ Alone(t) /\ StartPredict(t)
        \/ Alone(t) /\ AutoTrainCheck(t)
        \/ Alone(t) /\ TmFit(t)
        \/ Alone(t) /\ TmOpen(t)
        \/ Alone(t) /\ TmWrite(t)
        \/ Alone(t) /\ ReloadClear(t)
        \/ Alone(t) /\ LoadCheck(t)
        \/ Alone(t) /\ LoadExists(t)
        \/ Alone(t) /\ LoadPickle(t)
        \/ Alone(t) /\ LoadAssign(t)
        \/ Alone(t) /\ Return(t)

SpecSeq == Init /\ [][NextSeq]_vars

\* One call of predict on every sampled input.
InitPredict ==
    /\ X \in FeatureVectors
    /\ proba \in ProbaValues
    /\ importances \in ImportanceValues
    /\ result = NoResult
    /\ InitCache
    /\ disk = NoFile
    /\ dataset = generate_dataset
    /\ InitAnalysis

NextPredict == PredictCall

SpecPredict == InitPredict /\ [][NextPredict]_vars

\* The cluster service under concurrent request threads.
InitClusterSvc ==
    /\ X = X0
    /\ proba = << 10000, 20000, 70000 >>
    /\ importances = << 4000, 3000, 2000, 1000 >>
    /\ result = NoResult
    /\ InitCache
    /\ disk = NoFile
    /\ dataset \in OperatorFiles
    /\ InitAnalysis

NextCluster ==
    \/ \E t \in Threads :
        \/ \E f \in BOOLEAN : StartClusters(t, f)
        \/ GcCheck(t)
        \/ RcExists(t)
        \/ RcRead(t)
        \/ RcCompute(t)
        \/ GcAssign(t)
        \/ GcReturn(t)
        \/ ClustersReturn(t)
        \/ invalidate_cache(t)
    \/ DatasetGenerated

SpecCluster == InitClusterSvc /\ [][NextCluster]_vars

\* The same calls, one at a time.
ClustersAlone(t) == \A u \in Threads \ {t} : cpc[u] = "idle"
ClustersIdle == \A u \in Threads : cpc[u] = "idle"

NextClusterSeq ==
    \/ \E t \in Threads :
        \/ \E f \in BOOLEAN : ClustersAlone(t) /\ StartClusters(t, f)
        \/ ClustersAlone(t) /\ GcCheck(t)
        \/ ClustersAlone(t) /\ RcExists(t)
        \/ ClustersAlone(t) /\ RcRead(t)
        \/ ClustersAlone(t) /\ RcCompute(t)
        \/ ClustersAlone(t) /\ GcAssign(t)
        \/ ClustersAlone(t) /\ GcReturn(t)
        \/ ClustersAlone(t) /\ ClustersReturn(t)
        \/ ClustersAlone(t) /\ invalidate_cache(t)
    \/ ClustersIdle /\ DatasetGenerated

SpecClusterSeq == InitClusterSvc /\ [][NextClusterSeq]_vars

\* Cluster requests one at a time, with an operator who removes or replaces
\* the dataset file between two requests.
NextClusterOps ==
    \/ NextClusterSeq
    \/ ClustersIdle /\ DatasetReplaced

SpecClusterOps == InitClusterSvc /\ [][NextClusterOps]_vars

\* One call of _compute_validation_metrics on every sampled score list.
InitSweep ==
    /\ X = X0
    /\ proba = << 10000, 20000, 70000 >>
    /\ importances = << 4000, 3000, 2000, 1000 >>
    /\ result = NoResult
    /\ InitCache
    /\ disk = NoFile
    /\ dataset = generate_dataset
    /\ InitClusters
    /\ InitServices
    /\ sil_raw \in [1..Len(K_RANGE) -> SilhouetteValues]
    /\ validation = NoValidation
    /\ n_clusters = 0
    /\ means = << >>
    /\ interpretation = NoInterpretation
    /\ csv_rows = [kind \in RowKinds |-> 0]
    /\ analysis = NoAnalysis

NextSweep == SweepCall

SpecSweep == InitSweep /\ [][NextSweep]_vars

\* One call of _interpret_clusters for every sampled k and every sampled row
\* of means, with every cluster id 0..k-1 present in df or the last one
\* absent.
InitInterpret ==
    /\ X = X0
    /\ proba = << 10000, 20000, 70000 >>
    /\ importances = << 4000, 3000, 2000, 1000 >>
    /\ result = NoResult
    /\ InitCache
    /\ disk = NoFile
    /\ dataset = generate_dataset
    /\ InitClusters
    /\ InitServices
    /\ sil_raw = [i \in 1..Len(K_RANGE) |-> 0]
    /\ validation = NoValidation
    /\ n_clusters \in NClustersValues
    /\ \E S \in { 0..(n_clusters - 1), 0..(n_clusters - 2) } :
         means \in [S -> MeanProfiles]
    /\ interpretation = NoInterpretation
    /\ csv_rows = [kind \in RowKinds |-> 0]
    /\ analysis = NoAnalysis

NextInterpret == InterpretCall

SpecInterpret == InitInterpret /\ [][NextInterpret]_vars

\* One call of run_clustering on every sampled dataset and sweep.
InitRun ==
    /\ X = X0
    /\ proba = << 10000, 20000, 70000 >>
    /\ importances = << 4000, 3000, 2000, 1000 >>
    /\ result = NoResult
    /\ InitCache
    /\ disk = NoFile
    /\ dataset = generate_dataset
    /\ InitClusters
    /\ InitServices
    /\ sil_raw \in SweepSamples
    /\ validation = NoValidation
    /\ n_clusters = 0
    /\ means = << >>
    /\ interpretation = NoInterpretation
    /\ \E a, b \in MainCounts, c \in ThirdCounts :
         csv_rows = [kind \in RowKinds |->
                        IF kind = 1 THEN a ELSE IF kind = 2 THEN b ELSE c]
    /\ analysis = NoAnalysis

NextRun == RunClustering

SpecRun == InitRun /\ [][NextRun]_vars

\* Everything but the services of main.py and database.py, at process start
\* with a generated dataset and a trained model.pkl: _auto_train() finds the
\* model and does nothing.
InitRest ==
    /\ X = X0
    /\ proba = << 10000, 20000, 70000 >>
    /\ importances = << 4000, 3000, 2000, 1000 >>
    /\ result = NoResult
    /\ InitCache
    /\ disk = [exists |-> TRUE, data |-> Artifact(0)]
    /\ dataset = generate_dataset
    /\ InitClusters
    /\ InitPure

\* One call of _retry_on_locked(fn, max_retries) for every sampled behaviour
\* of fn: a call more than the default is drawn, to see it is never made.
InitRetry ==
    /\ InitRest
    /\ fn_results \in [1..(DEFAULT_MAX_RETRIES + 1) -> FnResults]
    /\ max_retries \in 1..DEFAULT_MAX_RETRIES
    /\ attempt = 0
    /\ fn_calls = 0
    /\ retried = [ kind |-> "running", raised |-> "none" ]
    /\ InitNoBatch

NextRetry == _retry_on_locked

SpecRetry == InitRetry /\ [][NextRetry]_vars

\* A client uploads a drawn CSV, waits for the worker, and uploads it again.
InitBatch ==
    /\ InitRest
    /\ InitNoRetry
    /\ csv \in CsvSamples
    /\ db = EmptyDb(1..csv.valid)
    /\ _batch_progress = << >>
    /\ worker = NoWorker
    /\ last_run = NoRun
    /\ bhist = [ write_failed |-> {} ]
    /\ reset = NoReset

NextBatch ==
    \/ batch_upload
    \/ WorkerRow
    \/ WorkerDone
    \/ WorkerFinalize

SpecBatch == InitBatch /\ [][NextBatch]_vars

\* POST /api/demo/reset on every sampled content of the tables: records of
\* demo students and of another student (id 0), a batch job or none, cached
\* advisories of some demo students and of as many other students or none.
InitReset ==
    /\ InitRest
    /\ InitNoRetry
    /\ csv = [ valid |-> 0, malformed |-> 0 ]
    /\ _batch_progress = << >>
    /\ worker = NoWorker
    /\ last_run = NoRun
    /\ bhist = [ write_failed |-> {} ]
    /\ reset = NoReset
    /\ \E stored \in [DEMO_STUDENTS \cup {0} -> 0..1],
          jobs \in { << >>, << [ total_rows |-> 1, processed |-> 1,
                                 status |-> "done" ] >> },
          demo \in SUBSET DEMO_STUDENTS,
          others \in { {}, (NDemo + 1)..(2 * NDemo) } :
         db = [ predictions    |-> stored,
                batch_jobs     |-> jobs,
                advisory_cache |-> { _metrics_hash(sid, "metrics") :
                                       sid \in demo \cup others } ]

NextReset ==
    \/ reset_demo_data
    \/ _seed_from_cache
    \/ seed_demo_data

SpecReset == InitReset /\ [][NextReset]_vars

----------------------------------------------------------------------------
(* The override rules as the specification lists them (section 4.2 step 4) *)

\* The raw model verdict of the call: the argmax class.
RawVerdict == classes[ArgMax(proba)]

Called == result # NoResult

\* The condition of rule k on feature vector x and raw verdict raw.
RuleHolds(k, x, raw) ==
    CASE k = 1 -> x.attendance_percentage < 50
      [] k = 2 -> x.internal_marks < 35
      [] k = 3 -> x.assignment_score < 35
      [] k = 4 -> x.study_hours_tenths < 15 /\ x.attendance_percentage < 75
      [] k = 5 -> Cardinality({ f \in {"att", "marks", "assign", "hours"} :
                     \/ f = "att" /\ x.attendance_percentage < 75
                     \/ f = "marks" /\ x.internal_marks < 60
                     \/ f = "assign" /\ x.assignment_score < 60
                     \/ f = "hours" /\ x.study_hours_tenths < 30 }) >= 3
      [] k = 6 -> x.attendance_percentage < 75 /\ raw = "Good"

RuleClass(k) == IF k = 6 THEN "Average" ELSE "At Risk"

\* The outcome of the first rule whose condition holds, else the raw verdict.
FirstMatch(x, raw) ==
    LET firing == { k \in 1..6 : RuleHolds(k, x, raw) }
    IN  IF firing = {} THEN raw
        ELSE RuleClass(CHOOSE k \in firing : \A j \in firing : k <= j)

\* One of the five force-to-At-Risk rules holds on x.
Forced(x) == \E k \in 1..5 : RuleHolds(k, x, "Good")

ClassSet == { classes[i] : i \in 1..Len(classes) }

\* C1: the class predict returns is the outcome of the first rule, in the
\* order 1..6, whose condition holds, and the raw verdict when none holds;
\* attendance below 50 gives At Risk whatever the verdict and other metrics.
C1_FirstMatchWins ==
    Called =>
        /\ result.risk_level = FirstMatch(X, RawVerdict)
        /\ X.attendance_percentage < 50 => result.risk_level = "At Risk"

\* The specification's precedence example with a raw verdict of Good.
C1_Witness ==
    /\ Called
    /\ X = [ attendance_percentage |-> 20, internal_marks |-> 100,
             assignment_score |-> 100, study_hours_tenths |-> 80 ]
    /\ RawVerdict = "Good"
    /\ result.risk_level = "At Risk"

\* C2: a predict call with attendance_percentage below 75 never returns Good.
C2_NeverGoodBelow75 ==
    (Called /\ X.attendance_percentage < 75) => result.risk_level # "Good"

\* Attendance 74, everything else excellent, raw verdict Good: downgraded.
C2_Witness ==
    /\ Called
    /\ X = [ attendance_percentage |-> 74, internal_marks |-> 100,
             assignment_score |-> 100, study_hours_tenths |-> 80 ]
    /\ RawVerdict = "Good"
    /\ result.risk_level = "Average"

C4_OverrideIdempotent ==
    Called => _apply_hard_rules(result.risk_level, X) = result.risk_level

\* A call whose verdict the override changed (Good to Average).
C4_Witness ==
    /\ Called
    /\ RawVerdict = "Good"
    /\ result.risk_level = "Average"
    /\ _apply_hard_rules("Average", X) = "Average"

\* C5 as stated: for the feature vector of the call, the override returns
\* the same class whatever prior verdict it is given.
C5_VerdictIndependent ==
    Called =>
        \A r1, r2 \in ClassSet :
            _apply_hard_rules(r1, X) = _apply_hard_rules(r2, X)

\* C5 as amended: the override's class is independent of the prior verdict
\* exactly when one of the five force-to-At-Risk rules holds on the feature
\* vector (and it is then the class predict returned); otherwise it depends
\* on the prior verdict.
C5_IndependentIffForced ==
    Called =>
        /\ Forced(X) <=>
             \A r1, r2 \in ClassSet :
                 _apply_hard_rules(r1, X) = _apply_hard_rules(r2, X)
        /\ Forced(X) =>
             \A r \in ClassSet : _apply_hard_rules(r, X) = result.risk_level

\* Rule 5 alone forces At Risk on a raw verdict of Good.
C5_Witness ==
    /\ Called
    /\ X = [ attendance_percentage |-> 75, internal_marks |-> 59,
             assignment_score |-> 59, study_hours_tenths |-> 29 ]
    /\ RawVerdict = "Good"
    /\ result.risk_level = "At Risk"

----------------------------------------------------------------------------
(* The artifact file and the cached slot.                                  *)

\* C6: every file content a pickle.load of _load_payload has read is a
\* complete artifact written by one finished training run.
C6_NoPartialArtifactRead ==
    \A t \in Threads :
        buf[t].read =>
            /\ IsArtifact(buf[t].data)
            /\ buf[t].data[1] \in hist.closed

\* C7: the slot is never cleared: once it holds an artifact, every step
\* leaves an artifact in it.
C7_SlotNeverCleared == [][cached # None => cached' # None]_vars

\* C8: a predict call that starts after a service-layer retrain has
\* completed never returns a prediction made with an artifact that retrain
\* superseded.
C8_PredictUsesRetrained ==
    \A t \in Threads :
        ret[t].kind = "prediction" =>
            ~ ( /\ IsArtifact(ret[t].payload)
                /\ ret[t].payload[1] \in hist.stale[t] )

\* C9: with one call at a time, the artifact is read from disk at most once
\* between two reload_model calls (and since process start), and every
\* prediction is made with the artifact held in the slot.
C9_LoadedOnceThenCached ==
    /\ hist.diskReads <= 1
    /\ \A t \in Threads :
           ret[t].kind = "prediction" =>
               /\ ret[t].payload = cached
               /\ cached # None

\* A predict call served from the slot, with no disk read, while model.pkl
\* already holds a newer artifact.
C9_Witness ==
    \E t \in Threads :
        /\ op[t] = "predict"
        /\ ret[t].kind = "prediction"
        /\ ~ buf[t].read
        /\ hist.diskReads = 1
        /\ IsArtifact(disk.data)
        /\ disk.data # cached

\* C10: a predict call made while model.pkl does not exist ends with
\* FileNotFoundError and returns no prediction.
C10_NotReadyError ==
    \A t \in Threads :
        (op[t] = "predict" /\ pc[t] = "done" /\ ~ hist.fileAtCall[t]) =>
            /\ ret[t].kind = "FileNotFoundError"
            /\ ret[t].payload = None

\* A direct predict call on a process that has no model.pkl.
C10_Witness ==
    \E t \in Threads :
        /\ op[t] = "predict"
        /\ pc[t] = "done"
        /\ ~ disk.exists
        /\ ~ hist.fileAtCall[t]
        /\ ret[t].kind = "FileNotFoundError"

----------------------------------------------------------------------------
(* The cluster result cache (specification sections 4.4 and 5).            *)

\* C11: a get_student_clusters call that is the first one after
\* invalidate_cache() returned, or that has force_recompute=True, runs
\* run_clustering again, and a result it returns was built during that call
\* (it is not the object cached before).
C11_RecomputeAfterInvalidate ==
    \A t \in Threads :
        (cpc[t] = "done" /\ (chist.afterInvalidate[t] \/ force_recompute[t]))
        => /\ chist.entered[t]
           /\ cret[t].kind = "result"
              => /\ cret[t].value.run > chist.callRuns[t]
                 /\ cret[t].value.gen >= chist.callGen[t]

\* A result was cached, invalidate_cache() was called, and the next call
\* (without force_recompute) has returned a result.
C11_Witness ==
    \E t \in Threads :
        /\ cpc[t] = "done"
        /\ chist.afterInvalidate[t]
        /\ ~force_recompute[t]
        /\ chist.callRuns[t] >= 1
        /\ cret[t].kind = "result"

\* C12: with no invalidate_cache() and no force_recompute, the clustering is
\* computed at most once in the process lifetime whatever the interleaving,
\* and every call returns that one result.
C12_ComputedOnce ==
    (chist.gen = 0 /\ ~chist.forced)
    => /\ runs <= 1
       /\ \A t \in Threads :
            (cpc[t] = "done" /\ cret[t].kind = "result")
            => cret[t].value.run = 1

\* C13: a call that starts after invalidate_cache() returned never returns a
\* result whose computation read the dataset before that invalidation.
C13_NoStaleAfterInvalidate ==
    \A t \in Threads :
        (cpc[t] = "done" /\ cret[t].kind = "result"
            /\ cret[t].value # NoCluster)
        => cret[t].value.gen >= chist.callGen[t]

----------------------------------------------------------------------------
(* Training input validation (specification sections 4.1 and 7).           *)

\* What a failed training run leaves: no run was given a version, no thread
\* is writing or reloading, model.pkl is what the process found at start,
\* and every finished training call has failed.
NothingTrained ==
    /\ nextVer = 1
    /\ disk \in { NoFile, [exists |-> TRUE, data |-> Artifact(0)] }
    /\ \A t \in Threads :
        /\ pc[t] \notin { "tm_open", "tm_write", "rl_clear" }
        /\ (pc[t] = "done" /\ op[t] = "script") => ret[t].kind = "ValueError"
        /\ (pc[t] = "done" /\ op[t] = "train") => ret[t].kind = "HTTP500"

\* C15: train_model on a dataset that lacks one of the four feature columns
\* or the label column fails with ValueError before anything is written:
\* model.pkl is neither created nor replaced.
C15_ValidationBeforeWrite ==
    (dataset.exists
        /\ ~((FEATURE_COLS \cup {TARGET_COL}) \subseteq dataset.columns))
    => NothingTrained

\* train.py was run on a dataset without its label column and has failed.
C15_Witness ==
    /\ dataset.exists
    /\ TARGET_COL \notin dataset.columns
    /\ \E t \in Threads :
        pc[t] = "done" /\ op[t] = "script" /\ ret[t].kind = "ValueError"

\* C16: training on a dataset whose label column holds a value outside
\* Good / Average / At Risk fails with a validation error and produces no
\* model artifact.
C16_OddLabelRejected ==
    (dataset.exists /\ dataset.odd_labels # "none") => NothingTrained

----------------------------------------------------------------------------
(* The clustering analysis (specification section 4.4).                    *)

LabelRank(label) ==
    CHOOSE r \in 1..n_clusters : _get_cluster_labels(n_clusters)[r] = label

\* C18: the labels follow the composite-score order: a cluster with a
\* strictly higher composite score than another gets an earlier label of the
\* best-to-worst vocabulary; the cluster labelled "At-Risk Behaviour Group"
\* has a composite no higher than any other cluster's, and the one labelled
\* "High Performing Group" a composite no lower than any other's.
C18_LabelsFollowComposite ==
    interpretation.done
    => LET composite == Composites(means)
       IN  \A a, b \in DOMAIN means :
            /\ composite[a] > composite[b]
               => LabelRank(interpretation.labels[a])
                    < LabelRank(interpretation.labels[b])
            /\ interpretation.labels[a] = "At-Risk Behaviour Group"
               => composite[a] <= composite[b]
            /\ interpretation.labels[a] = "High Performing Group"
               => composite[a] >= composite[b]

\* Five clusters, all present, were labelled; the one with the highest id
\* has a strictly higher composite than the one with the lowest id, which
\* got the last label, and a generic middle label was given too.
C18_Witness ==
    /\ interpretation.done
    /\ n_clusters = 5
    /\ DOMAIN means = 0..4
    /\ Composites(means)[4] > Composites(means)[0]
    /\ interpretation.labels[0] = "At-Risk Behaviour Group"
    /\ \E c \in DOMAIN means : interpretation.labels[c] = "Learner Group 2"

\* The rows of kind `kind` among the points of the result.
PointsOfKind(kind) ==
    SumOver([i \in DOMAIN analysis.points |->
                IF analysis.points[i].kind = kind
                THEN analysis.points[i].n ELSE 0],
            DOMAIN analysis.points)

\* The points of the result that carry cluster id cid.
PointsOfCluster(cid) ==
    SumOver([i \in DOMAIN analysis.points |->
                IF analysis.points[i].cluster = cid
                THEN analysis.points[i].n ELSE 0],
            DOMAIN analysis.points)

\* C19: the result is a partition of the analysed sample: the cluster id of
\* every point has exactly one summary card, every card counts the points
\* that carry its id, the student_count values sum to total_students and
\* the number of points is total_students.
C19_ResultIsPartition ==
    analysis.kind = "result"
    => /\ \A i \in DOMAIN analysis.points :
            Cardinality({ j \in DOMAIN analysis.clusters :
                analysis.clusters[j].cluster_id = analysis.points[i].cluster })
            = 1
       /\ \A j \in DOMAIN analysis.clusters :
            analysis.clusters[j].student_count
                = PointsOfCluster(analysis.clusters[j].cluster_id)
       /\ SumOver([j \in DOMAIN analysis.clusters |->
                        analysis.clusters[j].student_count],
                  DOMAIN analysis.clusters) = analysis.total_students
       /\ SumOver([i \in DOMAIN analysis.points |-> analysis.points[i].n],
                  DOMAIN analysis.points) = analysis.total_students

\* A dataset of more rows than the cap was analysed into three clusters, two
\* of them of different sizes.
C19_Witness ==
    /\ analysis.kind = "result"
    /\ Rows(csv_rows) > ANALYSIS_SAMPLE
    /\ Len(analysis.clusters) = 3
    /\ analysis.clusters[1].student_count # analysis.clusters[2].student_count

\* C20: a dataset of N rows is analysed on min(N, 2000) rows: total_students
\* is min(N, 2000), no row is dropped unless N exceeds 2000, the rows
\* analysed are rows of the dataset, and every card's count and means are
\* those of the analysed rows of its cluster.
C20_SamplingCap ==
    analysis.kind = "result"
    => /\ analysis.total_students
            = IF Rows(csv_rows) < 2000 THEN Rows(csv_rows) ELSE 2000
       /\ \A kind \in RowKinds :
            /\ PointsOfKind(kind) <= csv_rows[kind]
            /\ Rows(csv_rows) <= 2000 => PointsOfKind(kind) = csv_rows[kind]
       /\ \A j \in DOMAIN analysis.clusters :
            LET card  == analysis.clusters[j]
                total == SumOver([i \in DOMAIN analysis.points |->
                            IF analysis.points[i].cluster = card.cluster_id
                            THEN analysis.points[i].n
                                 * RowProfiles[analysis.points[i].kind]
                                              ["attendance_percentage"]
                            ELSE 0], DOMAIN analysis.points)
                diff  == 100 * total - card.avg_attendance * card.student_count
            IN  /\ card.student_count = PointsOfCluster(card.cluster_id)
                /\ 2 * diff <= card.student_count
                /\ 2 * diff >= 0 - card.student_count

\* A dataset of 2001 rows was analysed: one row was left out.
C20_Witness ==
    /\ analysis.kind = "result"
    /\ Rows(csv_rows) = 2001
    /\ analysis.total_students = 2000
    /\ \E kind \in RowKinds : PointsOfKind(kind) = csv_rows[kind] - 1

----------------------------------------------------------------------------
(* Claims C21, C22, C29: the dict predict() returns.                       *)

\* The sum of the returned probabilities, in units of 1e-4.
ProbabilitySum ==
    SumOver(result.probabilities, DOMAIN result.probabilities)

\* C21: the three class probabilities predict returns are non-negative and
\* sum to 1.0 within 1e-6.  The returned values are multiples of 1e-4, so a
\* sum within 1e-6 of 1.0 is a sum of exactly 10000 units.
C21_ProbabilitiesSumToOne ==
    Called
    => /\ Len(result.probabilities) = 3
       /\ \A i \in DOMAIN result.probabilities : result.probabilities[i] >= 0
       /\ ProbabilitySum = 10000

\* The position of a class in the order At Risk < Average < Good.
ClassRank(c) == IndexOf(c, << "At Risk", "Average", "Good" >>)

\* The column index of the feature a key-factor entry names.
ColumnOf(entry) == IndexOf(entry.feat, feature_cols)

\* C22: predict returns one key-factor entry per feature, four in all, in
\* the order of the forest's feature importances from the largest to the
\* smallest; each entry carries the observed value of its feature and is
\* marked "below <threshold>" exactly when that value is strictly below the
\* threshold (attendance 75, marks 60, assignment 60, study hours 3) and
\* "within range" otherwise.
C22_KeyFactors ==
    Called
    => LET kf == result.key_factors
           observed == [ attendance_percentage |-> X.attendance_percentage,
                         internal_marks        |-> X.internal_marks,
                         assignment_score      |-> X.assignment_score,
                         study_hours_per_day   |-> X.study_hours_tenths ]
           limit    == [ attendance_percentage |-> 75,
                         internal_marks        |-> 60,
                         assignment_score      |-> 60,
                         study_hours_per_day   |-> 30 ]
       IN  /\ Len(kf) = 4
           /\ \A c \in 1..4 :
                 Cardinality({ i \in 1..4 : kf[i].feat = feature_cols[c] }) = 1
           /\ \A i \in 1..3 :
                 importances[ColumnOf(kf[i])] >= importances[ColumnOf(kf[i + 1])]
           /\ \A i \in 1..4 :
                 /\ kf[i].value = observed[kf[i].feat]
                 /\ kf[i].note =
                      IF observed[kf[i].feat] < limit[kf[i].feat]
                      THEN << "below", limit[kf[i].feat] >>
                      ELSE << "within range" >>

\* The least important column comes first in X, two values sit exactly on
\* their thresholds and are within range, one value is below.
C22_Witness ==
    /\ Called
    /\ importances = << 1000, 2000, 3000, 4000 >>
    /\ result.key_factors[1].feat = "study_hours_per_day"
    /\ result.key_factors[4].feat = "attendance_percentage"
    /\ X.attendance_percentage = 75
    /\ X.study_hours_tenths = 30
    /\ X.internal_marks = 59
    /\ result.key_factors[1].note = << "within range" >>
    /\ result.key_factors[3].note = << "below", 60 >>
    /\ result.key_factors[4].note = << "within range" >>

\* C29: the override layer never upgrades a verdict: in the order
\* At Risk < Average < Good the class predict returns is at most the raw
\* verdict, and a changed class is "At Risk", or "Average" for a raw verdict
\* of "Good".
C29_NeverUpgrades ==
    Called
    => /\ ClassRank(result.risk_level) <= ClassRank(RawVerdict)
       /\ result.risk_level # RawVerdict
            => \/ result.risk_level = "At Risk"
               \/ RawVerdict = "Good" /\ result.risk_level = "Average"

\* A raw verdict of Average is lowered to At Risk by low marks, with the
\* attendance at its threshold.
C29_Witness ==
    /\ Called
    /\ RawVerdict = "Average"
    /\ X.attendance_percentage = 75
    /\ X.internal_marks = 34
    /\ result.risk_level = "At Risk"

----------------------------------------------------------------------------
(* Claim C28: a failed clustering computation and the cluster cache.       *)

ClusterErrors == { "FileNotFoundError", "ValueError" }

----------------------------------------------------------------------------
(* Claim C23: training determinism.                                        *)

----------------------------------------------------------------------------
(* Claim C27: the retry loop of the database layer.                        *)

\* C27: _retry_on_locked calls the operation at most max_retries times.  It
\* calls it again only after an OperationalError whose message holds
\* "locked"; it raises any other OperationalError at once; it raises the
\* locked error when the last attempt has failed; it returns the first
\* successful result and makes no further call.
C27_RetryOnLocked ==
    /\ fn_calls <= max_retries
    /\ \A j \in 1..(fn_calls - 1) : fn_results[j] = "locked"
    /\ retried.kind = "running"
         => \A j \in 1..fn_calls : fn_results[j] = "locked"
    /\ retried.kind = "returned" => fn_results[fn_calls] = "ok"
    /\ retried.kind = "raised"
         => /\ retried.raised = fn_results[fn_calls]
            /\ fn_results[fn_calls] # "ok"
            /\ fn_results[fn_calls] = "locked" => fn_calls = max_retries
    /\ (fn_calls >= 1 /\ fn_results[fn_calls] # "locked")
         => retried.kind \in { "returned", "raised" }

\* Three calls have hit a locked database, and the third error was raised.
C27_Witness ==
    /\ max_retries = 3
    /\ fn_calls = 3
    /\ retried = [ kind |-> "raised", raised |-> "locked" ]

----------------------------------------------------------------------------
(* Claims C24, C26, C30: batch uploads.                                    *)

\* The worker of the second upload of the CSV has finished.
SecondUploadFinished ==
    /\ Len(_batch_progress) = 2
    /\ _batch_progress[1].status = "done"
    /\ worker.batch_id = 2
    /\ worker.pc = "finished"

C26_AdvisoryNeverBlocks ==
    last_run.outcomes.ml = "ok"
    => /\ last_run.raised = 0
       /\ last_run.record # NoRecord
       /\ last_run.record.risk_level = ml_result.risk_level
       /\ last_run.record.confidence = ml_result.confidence
       /\ last_run.record.probabilities = ml_result.probabilities
       /\ last_run.record.key_factors = ml_result.key_factors
       /\ last_run.outcomes.advisory \in { "timeout", "raises" }
            => /\ last_run.record.ai_advisory_failed
               /\ last_run.record.risk_factors = "_build_risk_factors"

\* The advisory call timed out, the cache write and the insert failed, and
\* the record was returned.
C26_Witness ==
    /\ last_run.outcomes = [ ml |-> "ok", advisory |-> "timeout",
                             write |-> "fails", insert |-> "fails" ]
    /\ last_run.raised = 0
    /\ last_run.record.ai_advisory_failed
    /\ last_run.record.risk_level = ml_result.risk_level

\* C30: while a worker runs, processed never decreases and never exceeds
\* total, and status only moves from "processing" to "done"; once status is
\* "done" the progress endpoint reports processed + failed = total, however
\* many rows failed.
C30_ProgressAccounting ==
    [][ \A b \in DOMAIN _batch_progress' :
          LET after == batch_progress(_batch_progress'[b])
          IN  /\ after.processed <= after.total
              /\ after.status \in { "processing", "done" }
              /\ after.status = "done"
                   => after.processed + after.failed = after.total
              /\ b \in DOMAIN _batch_progress
                   => LET before == batch_progress(_batch_progress[b])
                      IN  /\ after.processed >= before.processed
                          /\ before.status = "done" => after.status = "done"
      ]_vars

----------------------------------------------------------------------------
(* Claim C25: the demo reset.                                              *)

\* C25: after reset_demo_data has completed successfully, the predictions
\* store holds exactly the demo students, one record each, and batch_jobs is
\* empty, on the instant path from the cache and on the path of a cache miss
\* followed by the full seed.
C25_ResetLeavesDemoStudents ==
    reset.pc = "done"
    => /\ \A sid \in DEMO_STUDENTS : db.predictions[sid] = 1
       /\ \A sid \in DOMAIN db.predictions \ DEMO_STUDENTS :
            db.predictions[sid] = 0
       /\ db.batch_jobs = << >>

====
